---------------------------- MODULE Spec2Model ----------------------------
(***************************************************************************)
(* A model of the Regatta Tactician: the sailing mathematics of            *)
(* utils/sailingMath.ts, the layer builder of components/RegattaMap.tsx    *)
(* and the state handling of App.tsx.                                      *)
(*                                                                         *)
(* Numbers.  The program computes in IEEE doubles; the model computes in   *)
(* fixed point over TLC's 32-bit integers.  Dimensionless numbers, angles  *)
(* (degrees and radians) and speeds (knots) are held in millionths         *)
(* (UNIT = 10^6 stands for 1.0); lengths (metres and pixels) are held in   *)
(* thousandths (MM = 10^3 stands for 1 m or 1 px).  Mul and Div rescale by *)
(* UNIT, so that unit*unit, length*unit, unit/unit, length/length and      *)
(* length/unit all come out in the scale of their kind.  Every operation   *)
(* rounds by at most a few millionths, so equalities of the program that   *)
(* hold "within floating tolerance" are stated with a tolerance here.      *)
(***************************************************************************)
EXTENDS Integers, Sequences, FiniteSets, TLC

VARIABLES
    call,   \* the sailingMath function last applied, with its arguments
    ret,    \* what it returned, as a one-element sequence; << >> before a call
    config,             \* App: the live configuration (Scenario B)
    comparisonConfig,   \* App: the frozen configuration (Scenario A) or Null
    width,              \* App: dimensions.width
    height,             \* App: dimensions.height
    currentMemo,        \* RegattaMap: the run of calculateLayerData whose
                        \* result useMemo holds as currentLayer
    comparisonMemo,     \* RegattaMap: the same for comparisonLayer, or Null
    edits,              \* the number of edits of the configuration and of
                        \* the boats so far
    boats,              \* App: the two boats
    dragging,           \* RegattaMap: what the pointer drags, or NotDragging
    dragStart           \* RegattaMap: dragStartRef.current, a point or Null

mathVars == <<call, ret>>
uiVars == <<boats, dragging, dragStart>>
renderVars == <<config, comparisonConfig, width, height, currentMemo, comparisonMemo>>
appVars == <<config, comparisonConfig, width, height, currentMemo, comparisonMemo, edits,
             boats, dragging, dragStart>>
vars == <<call, ret, config, comparisonConfig, width, height, currentMemo,
          comparisonMemo, edits, boats, dragging, dragStart>>

UNIT == 1000 * 1000
MM == 10 * 100

\* The element of a one-element set.  Val({e(v) : v \in {a}}) is e(a) with a
\* evaluated once and v bound to its value, however often e uses v: the
\* arithmetic below is written this way so that no argument is evaluated again
\* at each of its uses.
Val(S) == CHOOSE r \in S : TRUE

Abs(x) == Val({IF v < 0 THEN -v ELSE v : v \in {x}})
Sgn(x) == Val({IF v < 0 THEN -1 ELSE IF v > 0 THEN 1 ELSE 0 : v \in {x}})
Min2(a, b) == Val({IF v <= w THEN v ELSE w : v \in {a}, w \in {b}})
Max2(a, b) == Val({IF v >= w THEN v ELSE w : v \in {a}, w \in {b}})

\* n/d as a unit-scaled number: Num(7, 10) is 0.7, Num(30, 1) is 30.0
Num(n, d) == Sgn(n) * ((Abs(n) \div d) * UNIT + ((Abs(n) % d) * UNIT) \div d)
\* n/d metres or pixels
Metres(n, d) == (n * MM) \div d

\* a * b / UNIT for a, b >= 0 without leaving 32 bits: both factors are split
\* at 1000.
MulAbs(a, b) ==
    LET a1 == a \div 1000
        a0 == a % 1000
        b1 == b \div 1000
        b0 == b % 1000
        x1 == a1 * b0
        x2 == a0 * b1
    IN  a1 * b1 + (x1 \div 1000) + (x2 \div 1000)
          + (((x1 % 1000) + (x2 % 1000) + ((a0 * b0 + 500) \div 1000)) \div 1000)

\* a * b of the program, one factor at least unit-scaled
Mul(a, b) ==
    Val({IF v < 0
         THEN (IF w < 0 THEN MulAbs(-v, -w) ELSE -MulAbs(-v, w))
         ELSE (IF w < 0 THEN -MulAbs(v, -w) ELSE MulAbs(v, w)) : v \in {a}, w \in {b}})

\* a * UNIT / b by long division for a >= 0, b > 0: six decimal digits after
\* the integer quotient
DivAbs(a, b) ==
    LET r0 == a % b
        r1 == (r0 * 10) % b
        r2 == (r1 * 10) % b
        r3 == (r2 * 10) % b
        r4 == (r3 * 10) % b
        r5 == (r4 * 10) % b
    IN  (a \div b) * UNIT + ((r0 * 10) \div b) * 100000 + ((r1 * 10) \div b) * 10000
          + ((r2 * 10) \div b) * 1000 + ((r3 * 10) \div b) * 100
          + ((r4 * 10) \div b) * 10 + ((r5 * 10) \div b)

\* a / b of the program for b # 0 (the callers guard the zero divisors)
Div(a, b) ==
    Val({IF v < 0
         THEN (IF w < 0 THEN DivAbs(-v, -w) ELSE -DivAbs(-v, w))
         ELSE (IF w < 0 THEN -DivAbs(v, -w) ELSE DivAbs(v, w)) : v \in {a}, w \in {b}})

\* truncated integer quotient, b > 0
Quot(a, b) == Val({IF v < 0 THEN -((-v) \div b) ELSE v \div b : v \in {a}})

\* JavaScript's %: the remainder takes the sign of the dividend
JsMod(a, b) == Val({IF v < 0 THEN -((-v) % b) ELSE v % b : v \in {a}})

\* Math.sqrt by Newton's iteration from above, on a unit-scaled x >= 0
RECURSIVE SqrtIter(_, _, _)
SqrtIter(x, y, n) ==
    IF n = 0 \/ y = 0 THEN y
    ELSE Val({IF z >= y THEN y ELSE SqrtIter(x, z, n - 1)
              : z \in {(y + DivAbs(x, y)) \div 2}})

MathSqrt(x) ==
    Val({IF v <= 0 THEN 0 ELSE SqrtIter(v, IF v >= UNIT THEN v ELSE UNIT, 40)
         : v \in {x}})

MathPI == 3141593
HalfPI == MathPI \div 2
TwoPI == 2 * MathPI

\* sin and cos on [0, pi/4] by their Taylor series in Horner form
SinSeries(x) ==
    Val({Val({Val({Val({Val({MulAbs(x, t1)
        : t1 \in {UNIT - (MulAbs(x2, t2) \div 6)}})
        : t2 \in {UNIT - (MulAbs(x2, t3) \div 20)}})
        : t3 \in {UNIT - (MulAbs(x2, t4) \div 42)}})
        : t4 \in {UNIT - (x2 \div 72)}})
        : x2 \in {MulAbs(x, x)}})

CosSeries(x) ==
    Val({Val({Val({Val({UNIT - (MulAbs(x2, t2) \div 2)
        : t2 \in {UNIT - (MulAbs(x2, t3) \div 12)}})
        : t3 \in {UNIT - (MulAbs(x2, t4) \div 30)}})
        : t4 \in {UNIT - (x2 \div 56)}})
        : x2 \in {MulAbs(x, x)}})

\* sin on the first quadrant [0, pi/2]
SinQ(x) == IF x <= HalfPI \div 2 THEN SinSeries(x) ELSE CosSeries(HalfPI - x)

\* sin on [0, 2 pi)
SinTurn(x) ==
    IF x <= HalfPI THEN SinQ(x)
    ELSE IF x <= MathPI THEN SinQ(MathPI - x)
    ELSE IF x <= MathPI + HalfPI THEN -SinQ(x - MathPI)
    ELSE -SinQ(IF TwoPI - x > HalfPI THEN HalfPI ELSE TwoPI - x)

\* Math.sin and Math.cos, argument in radians
MathSin(rad) ==
    Val({IF v < 0 THEN -SinTurn((-v) % TwoPI) ELSE SinTurn(v % TwoPI) : v \in {rad}})
MathCos(rad) ==
    Val({SinTurn(((IF v < 0 THEN -v ELSE v) + HalfPI) % TwoPI) : v \in {rad}})

\* atan on [-1/2, 1/2] by its series
AtanSeries(u) ==
    Val({Val({Val({Val({Val({Val({Val({Mul(u, t1)
        : t1 \in {UNIT - Mul(u2, t2)}})
        : t2 \in {Num(1, 3) - Mul(u2, t3)}})
        : t3 \in {Num(1, 5) - Mul(u2, t4)}})
        : t4 \in {Num(1, 7) - Mul(u2, t5)}})
        : t5 \in {Num(1, 9) - Mul(u2, t6)}})
        : t6 \in {Num(1, 11) - Mul(u2, Num(1, 13))}})
        : u2 \in {Mul(u, u)}})

\* atan(1/2) = 0.463648
AtanHalf == 463 * 1000 + 648

\* atan on [0, 1]: atan z = atan(1/2) + atan((z - 1/2) / (1 + z/2))
AtanUnit(z) ==
    AtanHalf + Val({AtanSeries(u) : u \in {Div(z - Num(1, 2), UNIT + (z \div 2))}})

\* the angle of the point (x, y), x > 0 and y > 0, from the x axis
AtanQ(y, x) ==
    IF y <= x
    THEN Val({AtanUnit(z) : z \in {DivAbs(y, x)}})
    ELSE HalfPI - Val({AtanUnit(z) : z \in {DivAbs(x, y)}})

\* Math.atan2(y, x) in radians, in (-pi, pi]; atan2(0, 0) = 0
MathAtan2(y, x) ==
    Val({IF u = 0 /\ v = 0 THEN 0
         ELSE IF v = 0 THEN (IF u > 0 THEN 0 ELSE MathPI)
         ELSE IF u = 0 THEN (IF v > 0 THEN HalfPI ELSE -HalfPI)
         ELSE IF u > 0
              THEN (IF v > 0 THEN AtanQ(v, u) ELSE -AtanQ(-v, u))
              ELSE (IF v > 0 THEN MathPI - AtanQ(v, -u) ELSE -(MathPI - AtanQ(-v, -u)))
         : v \in {y}, u \in {x}})

toRadians(deg) == Quot(Mul(deg, MathPI), 180)
toDegrees(rad) == Val({Div(v * 180, MathPI) : v \in {rad}})

(***************************************************************************)
(* utils/sailingMath.ts.  A Point is a record [x, y] of lengths; the       *)
(* program's null is Null.                                                 *)
(***************************************************************************)
Null == [null |-> TRUE]
\* no sailingMath call in progress
\* the null of the state `dragging', whose other values are strings
NotDragging == "null"

Idle == [fn |-> "idle"]
Pt(x, y) == [x |-> x, y |-> y]

\* the unit vector of a compass angle: 0 = +y, 90 = +x
compassVector(angle) ==
    Val({Pt(MathSin(rad), MathCos(rad)) : rad \in {toRadians(angle)}})

\* rotatePoint without the cosine terms of the rotation matrix
rotatePoint_shear(point, center, angleDeg) ==
    Val({Pt(c.x + (d.x - Mul(d.y, v.x)),
            c.y + (Mul(d.x, v.x) + d.y))
         : d \in {Pt(point.x - center.x, point.y - center.y)},
           c \in {center},
           v \in {compassVector(angleDeg)}})

rotatePoint(point, center, angleDeg) ==
    Val({Pt(c.x + (Mul(d.x, v.y) - Mul(d.y, v.x)),
            c.y + (Mul(d.x, v.x) + Mul(d.y, v.y)))
         : d \in {Pt(point.x - center.x, point.y - center.y)},
           c \in {center},
           v \in {compassVector(angleDeg)}})

projectPoint(start, angle, dist) ==
    Val({Pt(s.x + Mul(l, v.x), s.y + Mul(l, v.y))
         : s \in {start}, l \in {dist}, v \in {compassVector(angle)}})

\* the determinant of the direction vectors v1 and v2 of intersectLines
lineDet(v1, v2) == Mul(v1.x, -v2.y) - Mul(v1.y, -v2.x)

ParallelTolerance == Num(1, 10000)

\* intersectLines comparing det, not Math.abs(det), with the tolerance
intersectLines_signedDet(p1, angle1, p2, angle2) ==
    Val({Val({IF det < ParallelTolerance THEN Null
              ELSE Val({Pt(a.x + Mul(t, v1.x), a.y + Mul(t, v1.y))
                        : t \in {Div(Mul(b.x - a.x, -v2.y) - Mul(b.y - a.y, -v2.x),
                                     det)}})
              : det \in {lineDet(v1, v2)}})
         : a \in {p1}, b \in {p2},
           v1 \in {compassVector(angle1)}, v2 \in {compassVector(angle2)}})

intersectLines(p1, angle1, p2, angle2) ==
    Val({Val({IF Abs(det) < ParallelTolerance THEN Null
              ELSE Val({Pt(a.x + Mul(t, v1.x), a.y + Mul(t, v1.y))
                        : t \in {Div(Mul(b.x - a.x, -v2.y) - Mul(b.y - a.y, -v2.x),
                                     det)}})
              : det \in {lineDet(v1, v2)}})
         : a \in {p1}, b \in {p2},
           v1 \in {compassVector(angle1)}, v2 \in {compassVector(angle2)}})

\* getUpwindTWA with the 10..20 kn piece falling by 8 degrees, as the 4..10 kn
\* piece does, instead of 4
getUpwindTWA_steepHeavyAir(windSpeed) ==
    Val({IF w <= Num(4, 1) THEN Num(50, 1)
         ELSE IF w >= Num(20, 1) THEN Num(38, 1)
         ELSE IF w < Num(10, 1)
              THEN Num(50, 1) - Div(w - Num(4, 1), Num(6, 1)) * 8
              ELSE Num(42, 1) - Div(w - Num(10, 1), Num(10, 1)) * 8
         : w \in {windSpeed}})

getUpwindTWA(windSpeed) ==
    Val({IF w <= Num(4, 1) THEN Num(50, 1)
         ELSE IF w >= Num(20, 1) THEN Num(38, 1)
         ELSE IF w < Num(10, 1)
              THEN Num(50, 1) - Div(w - Num(4, 1), Num(6, 1)) * 8
              ELSE Num(42, 1) - Div(w - Num(10, 1), Num(10, 1)) * 4
         : w \in {windSpeed}})

\* getTackingAngles without the + 360 before the starboard remainder
getTackingAngles_noWrap(windDir, windSpeed) ==
    Val({[portTack |-> JsMod(d + twa + Num(360, 1), Num(360, 1)),
          starboardTack |-> JsMod(d - twa, Num(360, 1)),
          twa |-> twa]
         : d \in {windDir}, twa \in {getUpwindTWA(windSpeed)}})

getTackingAngles(windDir, windSpeed) ==
    Val({[portTack |-> JsMod(d + twa + Num(360, 1), Num(360, 1)),
          starboardTack |-> JsMod(d - twa + Num(360, 1), Num(360, 1)),
          twa |-> twa]
         : d \in {windDir}, twa \in {getUpwindTWA(windSpeed)}})

\* the angle taken as it comes, angles above 180 not reflected
offWindAngle_noReflection(twa) == Abs(twa)

\* the angle off the wind of calculateBoatSpeed, in 0..180
offWindAngle(twa) == Abs(IF twa > Num(180, 1) THEN Num(360, 1) - twa ELSE twa)

MaxHullSpeed == Num(85, 10)

\* the base max speed without the final Math.min(baseMaxSpeed, 8.5)
baseMaxSpeed_uncapped(windSpeed) ==
    Val({IF w < Num(10, 1)
         THEN Val({IF light < Num(3, 1) THEN Num(3, 1) + Div(w, Num(10, 1))
                   ELSE light
                   : light \in {Mul(w, Num(7, 10))}})
         ELSE Num(62, 10) + Mul(w - Num(10, 1), Num(1, 10))
         : w \in {windSpeed}})

\* the base max speed without the light-air floor
baseMaxSpeed_noFloor(windSpeed) ==
    Val({Min2(IF w < Num(10, 1)
              THEN Mul(w, Num(7, 10))
              ELSE Num(62, 10) + Mul(w - Num(10, 1), Num(1, 10)),
              MaxHullSpeed)
         : w \in {windSpeed}})

\* the base max speed of calculateBoatSpeed
baseMaxSpeed(windSpeed) ==
    Val({Min2(IF w < Num(10, 1)
              THEN Val({IF light < Num(3, 1) THEN Num(3, 1) + Div(w, Num(10, 1))
                        ELSE light
                        : light \in {Mul(w, Num(7, 10))}})
              ELSE Num(62, 10) + Mul(w - Num(10, 1), Num(1, 10)),
              MaxHullSpeed)
         : w \in {windSpeed}})

smoothStep(t) == Val({Mul(Mul(v, v), Num(3, 1) - 2 * v) : v \in {t}})

reachSpeed(base) == Mul(base, Num(115, 100))

downwindSpeed(base, windSpeed) ==
    IF windSpeed > Num(14, 1) THEN Mul(base, Num(13, 10)) ELSE Mul(base, Num(95, 100))

\* the three formulas of calculateBoatSpeed above the no-go zone
upwindRamp(angle, base, optTWA) ==
    Val({Mul(base, MathSin(Quot(Mul(progress, MathPI), 2)))
         : progress \in {Div(angle - Num(30, 1), optTWA - Num(30, 1))}})

reachInterpolation(angle, base, optTWA) ==
    Val({base + Mul(reachSpeed(base) - base, smoothStep(t))
         : t \in {Div(angle - optTWA, Num(90, 1) - optTWA)}})

\* the 90..180 interpolation starting from the base max speed instead of the
\* reach speed
downwindInterpolation_fromBase(angle, base, windSpeed) ==
    Val({base + Mul(downwindSpeed(base, windSpeed) - base, smoothStep(t))
         : t \in {Div(angle - Num(90, 1), Num(90, 1))}})

downwindInterpolation(angle, base, windSpeed) ==
    Val({reach + Mul(downwindSpeed(base, windSpeed) - reach, smoothStep(t))
         : t \in {Div(angle - Num(90, 1), Num(90, 1))},
           reach \in {reachSpeed(base)}})

calculateBoatSpeed(twa, windSpeed) ==
    Val({IF angle < Num(30, 1) THEN 0
         ELSE Val({IF angle < optTWA THEN upwindRamp(angle, base, optTWA)
                   ELSE IF angle <= Num(90, 1)
                        THEN reachInterpolation(angle, base, optTWA)
                        ELSE downwindInterpolation(angle, base, w)
                   : base \in {baseMaxSpeed(w)}, optTWA \in {getUpwindTWA(w)}})
         : angle \in {offWindAngle(twa)}, w \in {windSpeed}})

\* the through-water heading of getGroundVector on a tack
tackHeading(windDir, twa, tack) ==
    IF tack = "port"
    THEN JsMod(windDir + twa, Num(360, 1))
    ELSE JsMod(windDir - twa + Num(360, 1), Num(360, 1))

\* the course with the arguments of Math.atan2 exchanged
courseOverGround_swapped(groundVel) ==
    Val({IF cog < 0 THEN cog + Num(360, 1) ELSE cog
         : cog \in {toDegrees(MathAtan2(groundVel.y, groundVel.x))}})

\* cog and sog of a ground velocity
courseOverGround(groundVel) ==
    Val({IF cog < 0 THEN cog + Num(360, 1) ELSE cog
         : cog \in {toDegrees(MathAtan2(groundVel.x, groundVel.y))}})

speedOverGround(groundVel) ==
    MathSqrt(Mul(groundVel.x, groundVel.x) + Mul(groundVel.y, groundVel.y))

getGroundVector(windDir, windSpeed, currentDir, currentSpeed, tack) ==
    Val({Val({Val({[cog |-> courseOverGround(groundVel),
                    sog |-> speedOverGround(groundVel),
                    heading |-> heading]
                   : groundVel \in {Pt(Mul(boatSpeed, h.x) + Mul(cs, c.x),
                                       Mul(boatSpeed, h.y) + Mul(cs, c.y))}})
              : boatSpeed \in {calculateBoatSpeed(twa, w)},
                heading \in {tackHeading(wd, twa, tack)},
                h \in {compassVector(tackHeading(wd, twa, tack))},
                c \in {compassVector(currentDir)}})
         : wd \in {windDir}, w \in {windSpeed}, cs \in {currentSpeed},
           twa \in {getTackingAngles(windDir, windSpeed).twa}})

(***************************************************************************)
(* types.ts and components/RegattaMap.tsx: the configuration and the layer *)
(* builder.  Angles and speeds of a CourseConfig are unit-scaled, its      *)
(* lengths are in thousandths of a metre.                                  *)
(***************************************************************************)
DEFAULT_CONFIG ==
    [windDirection |-> 0,
     windSpeed |-> Num(12, 1),
     currentDirection |-> Num(90, 1),
     currentSpeed |-> 0,
     courseAxis |-> 0,
     courseLength |-> Metres(1000, 1),
     startLineLength |-> Metres(200, 1),
     startLineBias |-> 0,
     markShift |-> 0,
     showLadderRungs |-> TRUE,
     showLaylines |-> TRUE,
     showWindLine |-> TRUE,
     showZones |-> FALSE]

\* Infinity and -Infinity of getXAtY0: beyond every length of the model
Infinity == 2000 * 1000 * 1000

\* The scaling of a render of RegattaMap: the props config, width and height
\* fix scale, centerX and centerY, which calculateLayerData reads through
\* toScreen whatever configuration it is applied to.
margin == Metres(50, 1)

viewOf(live, w, h) ==
    Val({[scale |-> Div(Min2(plotWidth, plotHeight), Mul(live.courseLength, Num(14, 10))),
          centerX |-> w \div 2,
          centerY |-> Mul(h, Num(85, 100)),
          width |-> w,
          height |-> h]
         : plotWidth \in {w - margin * 2}, plotHeight \in {h - margin * 2}})

toScreen(view, p) ==
    Val({Pt(view.centerX + Mul(q.x, view.scale), view.centerY - Mul(q.y, view.scale))
         : q \in {p}})

toWorld(view, p) ==
    Val({Pt(Div(q.x - view.centerX, view.scale), Div(view.centerY - q.y, view.scale))
         : q \in {p}})

\* toScreen of a corner that may be null
toScreenOrNull(view, p) == IF p = Null THEN Null ELSE toScreen(view, p)

\* 2. the course objects in world coordinates
pinLocWorld(cfg) ==
    rotatePoint(Pt(-(cfg.startLineLength \div 2), 0), Pt(0, 0), cfg.startLineBias)
rcLocWorld(cfg) ==
    rotatePoint(Pt(cfg.startLineLength \div 2, 0), Pt(0, 0), cfg.startLineBias)
markLocWorld(cfg) == Pt(cfg.markShift, cfg.courseLength)

\* A. the ground vectors of the two tacks
portData(cfg) ==
    getGroundVector(cfg.windDirection, cfg.windSpeed, cfg.currentDirection,
                    cfg.currentSpeed, "port")
stbdData(cfg) ==
    getGroundVector(cfg.windDirection, cfg.windSpeed, cfg.currentDirection,
                    cfg.currentSpeed, "stbd")

\* the layline from the mark runs along the reciprocal of the ground track
markLaylineAngle(cog) == JsMod(cog + Num(180, 1), Num(360, 1))

MathTan(rad) == Val({Div(MathSin(v), MathCos(v)) : v \in {rad}})

getXAtY0(angle, startY) ==
    Val({IF Abs(MathCos(rad)) < Num(1, 1000)
         THEN (IF angle > Num(180, 1) THEN -Infinity ELSE Infinity)
         ELSE -Mul(startY, MathTan(rad))
         : rad \in {toRadians(angle)}})

\* a corner: the analytic intersection, replaced by the start mark when the
\* mark layline crosses y = 0 on the wrong side of it or the intersection lies
\* below y = 0
clampCorner(analytic, wrongSide, startMark) ==
    Val({IF c # Null /\ c.y < 0 THEN startMark ELSE c
         : c \in {IF wrongSide THEN startMark ELSE analytic}})

leftCornerWorld(cfg, portCog, stbdCog) ==
    Val({clampCorner(intersectLines(pin, stbdCog, markLocWorld(cfg),
                                    markLaylineAngle(portCog)),
                     getXAtY0(markLaylineAngle(portCog), cfg.courseLength) > pin.x,
                     pin)
         : pin \in {pinLocWorld(cfg)}})

rightCornerWorld(cfg, portCog, stbdCog) ==
    Val({clampCorner(intersectLines(rc, portCog, markLocWorld(cfg),
                                    markLaylineAngle(stbdCog)),
                     getXAtY0(markLaylineAngle(stbdCog), cfg.courseLength) < rc.x,
                     rc)
         : rc \in {rcLocWorld(cfg)}})

\* the world geometry every part of the layer is built from
courseWorld(cfg) ==
    Val({[pin |-> pinLocWorld(cfg),
          rc |-> rcLocWorld(cfg),
          mark |-> markLocWorld(cfg),
          portCOG |-> portCog,
          stbdCOG |-> stbdCog,
          leftCorner |-> leftCornerWorld(cfg, portCog, stbdCog),
          rightCorner |-> rightCornerWorld(cfg, portCog, stbdCog)]
         : portCog \in {portData(cfg).cog}, stbdCog \in {stbdData(cfg).cog}})

\* the path with the test of the corners left out
polyPath_unguarded(pinLoc, leftCorner, markLoc, rightCorner, rcLoc) ==
    <<pinLoc, leftCorner, markLoc, rightCorner, rcLoc>>

\* the path "M pin L leftCorner L mark L rightCorner L rc Z" as the sequence of
\* its vertices; the empty string is the empty sequence
polyPath(pinLoc, leftCorner, markLoc, rightCorner, rcLoc) ==
    IF leftCorner # Null /\ rightCorner # Null
    THEN <<pinLoc, leftCorner, markLoc, rightCorner, rcLoc>>
    ELSE << >>

\* B. ladder rungs
rungStep == Metres(100, 1)
rungPad == Metres(20, 1)

numRungs(cfg) == -((-Mul(cfg.courseLength, Num(11, 10))) \div rungStep)

\* the bounds without the padding: the map itself
rungBounds_noPad(view) ==
    [minX |-> 0, maxX |-> view.width, minY |-> 0, maxY |-> view.height]

rungBounds(view) ==
    [minX |-> rungPad, maxX |-> view.width - rungPad,
     minY |-> rungPad, maxY |-> view.height - rungPad]

\* one test of a rung against a vertical side x = side of the bounds: the
\* crossing point, in a sequence, when it lies on the segment and on the side
crossVertical(p1, dx, dy, side, bounds) ==
    Val({IF t >= 0 /\ t <= UNIT
         THEN Val({IF y >= bounds.minY /\ y <= bounds.maxY
                   THEN <<Pt(side, y)>> ELSE << >>
                   : y \in {p1.y + Mul(t, dy)}})
         ELSE << >>
         : t \in {Div(side - p1.x, dx)}})

crossHorizontal(p1, dx, dy, side, bounds) ==
    Val({IF t >= 0 /\ t <= UNIT
         THEN Val({IF x >= bounds.minX /\ x <= bounds.maxX
                   THEN <<Pt(x, side)>> ELSE << >>
                   : x \in {p1.x + Mul(t, dx)}})
         ELSE << >>
         : t \in {Div(side - p1.y, dy)}})

rungIntersections(p1, dx, dy, bounds) ==
    (IF Abs(dx) > Metres(1, 100)
     THEN crossVertical(p1, dx, dy, bounds.minX, bounds)
          \o crossVertical(p1, dx, dy, bounds.maxX, bounds)
     ELSE << >>)
    \o
    (IF Abs(dy) > Metres(1, 100)
     THEN crossHorizontal(p1, dx, dy, bounds.minY, bounds)
          \o crossHorizontal(p1, dx, dy, bounds.maxY, bounds)
     ELSE << >>)

\* the comparator that orders by y alone
compareIntersections_byY(a, b) == a.y - b.y

\* the comparator of intersections.sort: by x when the x differ by more than
\* one pixel, else by y
compareIntersections(a, b) ==
    IF Abs(a.x - b.x) > Metres(1, 1) THEN a.x - b.x ELSE a.y - b.y

\* Array.prototype.sort on these short arrays: a stable insertion sort
RECURSIVE insertSorted(_, _)
insertSorted(sorted, e) ==
    IF sorted = << >> THEN <<e>>
    ELSE IF compareIntersections(sorted[Len(sorted)], e) > 0
         THEN Append(insertSorted(SubSeq(sorted, 1, Len(sorted) - 1), e),
                     sorted[Len(sorted)])
         ELSE Append(sorted, e)

RECURSIVE sortIntersections(_)
sortIntersections(xs) ==
    IF xs = << >> THEN << >>
    ELSE insertSorted(sortIntersections(SubSeq(xs, 1, Len(xs) - 1)), xs[Len(xs)])

\* the angle of a rung's label, folded into [-90, 90]
rungRotation(dx, dy) ==
    Val({IF angleDeg > Num(90, 1) THEN angleDeg - Num(180, 1)
         ELSE IF angleDeg < -Num(90, 1) THEN angleDeg + Num(180, 1)
         ELSE angleDeg
         : angleDeg \in {toDegrees(MathAtan2(dy, dx))}})

\* rung i, or Null when it crosses no side of the bounds
ladderRung(cfg, view, i) ==
    Val({Val({Val({Val({IF sorted = << >> THEN Null
                   ELSE [p1 |-> p1, p2 |-> p2, labelPos |-> sorted[1],
                         rotation |-> rungRotation(dx, dy),
                         id |-> i, label |-> i * 100]
                   : sorted \in {sortIntersections(
                                     rungIntersections(p1, dx, dy, rungBounds(view)))}})
              : dx \in {p2.x - p1.x}, dy \in {p2.y - p1.y}})
         : p1 \in {toScreen(view, projectPoint(centerWorld,
                                               cfg.windDirection + Num(90, 1),
                                               (cfg.courseLength * 4) \div 2))},
           p2 \in {toScreen(view, projectPoint(centerWorld,
                                               cfg.windDirection + Num(90, 1) + Num(180, 1),
                                               (cfg.courseLength * 4) \div 2))}})
         : centerWorld \in {projectPoint(markLocWorld(cfg),
                                         cfg.windDirection + Num(180, 1),
                                         i * rungStep)}})

RECURSIVE rungsUpTo(_, _, _)
rungsUpTo(cfg, view, i) ==
    IF i < 0 THEN << >>
    ELSE Val({IF rung = Null THEN rungsUpTo(cfg, view, i - 1)
              ELSE Append(rungsUpTo(cfg, view, i - 1), rung)
              : rung \in {ladderRung(cfg, view, i)}})

ladderRungs(cfg, view) ==
    IF cfg.showLadderRungs THEN rungsUpTo(cfg, view, numRungs(cfg)) ELSE << >>

\* Math.sqrt(dx * dx + dy * dy) of two lengths
MathHypot(dx, dy) ==
    Val({IF big = 0 THEN 0
         ELSE Val({Mul(big, MathSqrt(UNIT + Mul(r, r))) : r \in {Div(small, big)}})
         : big \in {Max2(Abs(dx), Abs(dy))}, small \in {Min2(Abs(dx), Abs(dy))}})

\* C. the middle wind line
segmentIntersect(p1, p2, lineStart, lineAngle) ==
    Val({IF hit = Null THEN Null
         ELSE IF /\ hit.x >= Min2(p1.x, p2.x) - Metres(1, 10)
                 /\ hit.x <= Max2(p1.x, p2.x) + Metres(1, 10)
                 /\ hit.y >= Min2(p1.y, p2.y) - Metres(1, 10)
                 /\ hit.y <= Max2(p1.y, p2.y) + Metres(1, 10)
              THEN hit
              ELSE Null
         : hit \in {intersectLines(p1, toDegrees(MathAtan2(p2.x - p1.x, p2.y - p1.y)),
                                   lineStart, lineAngle)}})

\* a crossing below the mark is a candidate end of the wind line
windCandidate(hit, mark) ==
    IF hit # Null /\ hit.y < mark.y THEN <<hit>> ELSE << >>

windCandidates(world, windAngle) ==
    windCandidate(segmentIntersect(world.leftCorner, world.pin, world.mark, windAngle),
                  world.mark)
    \o windCandidate(segmentIntersect(world.pin, world.rc, world.mark, windAngle),
                     world.mark)
    \o windCandidate(segmentIntersect(world.rc, world.rightCorner, world.mark, windAngle),
                     world.mark)

\* the loop over the candidates: the first of the closest ones farther than a
\* metre from the mark, as [minDist, end]
RECURSIVE closestCandidate(_, _)
closestCandidate(candidates, mark) ==
    IF candidates = << >> THEN [minDist |-> Infinity, end |-> mark]
    ELSE Val({IF d < best.minDist /\ d > Metres(1, 1)
              THEN [minDist |-> d, end |-> pt]
              ELSE best
              : d \in {MathHypot(candidates[Len(candidates)].x - mark.x,
                                 candidates[Len(candidates)].y - mark.y)},
                pt \in {candidates[Len(candidates)]},
                best \in {closestCandidate(SubSeq(candidates, 1, Len(candidates) - 1),
                                           mark)}})

windLineEndWorld(cfg, world) ==
    Val({Val({IF closest.minDist = Infinity
              THEN projectPoint(world.mark, windAngle, cfg.courseLength)
              ELSE closest.end
              : closest \in {closestCandidate(windCandidates(world, windAngle),
                                              world.mark)}})
         : windAngle \in {JsMod(cfg.windDirection + Num(180, 1), Num(360, 1))}})

windLine(cfg, view, world) ==
    IF cfg.showWindLine /\ world.leftCorner # Null /\ world.rightCorner # Null
    THEN [p1 |-> toScreen(view, world.mark),
          p2 |-> toScreen(view, windLineEndWorld(cfg, world))]
    ELSE Null

\* D. zones
\* the compass angle of a point seen from the mark, in [0, 360)
angleFromMark(p, mark) ==
    Val({IF a < 0 THEN a + Num(360, 1) ELSE a
         : a \in {toDegrees(MathAtan2(p.x - mark.x, p.y - mark.y))}})

bisect(a1, a2) ==
    Val({Val({IF b < 0 THEN b + Num(360, 1) ELSE b
              : b \in {toDegrees(MathAtan2(MathSin(r1) + MathSin(r2),
                                           MathCos(r1) + MathCos(r2)))}})
         : r1 \in {toRadians(a1)}, r2 \in {toRadians(a2)}})

getXOnPoly(corner, start, mark, targetY) ==
    IF corner = Null THEN 0
    ELSE IF targetY > corner.y
         THEN corner.x + Mul(mark.x - corner.x,
                             Div(targetY - corner.y, mark.y - corner.y))
         ELSE start.x + Mul(corner.x - start.x,
                            Div(targetY - start.y, corner.y - start.y))

getXOnLine(mark, angle, targetY) ==
    mark.x + Mul(targetY - mark.y, MathTan(toRadians(angle)))

\* warnPair without the merge of a crossed pair
warnPair_unmerged(xLeftRaw, xRightRaw, xLeftPoly, xRightPoly) ==
    [left |-> Max2(xLeftRaw, xLeftPoly), right |-> Min2(xRightRaw, xRightPoly)]

\* the two warning-line abscissas at one level, clamped to the boundary and
\* merged to their middle when they cross
warnPair(xLeftRaw, xRightRaw, xLeftPoly, xRightPoly) ==
    Val({IF wl > wr THEN [left |-> (wl + wr) \div 2, right |-> (wl + wr) \div 2]
         ELSE [left |-> wl, right |-> wr]
         : wl \in {Max2(xLeftRaw, xLeftPoly)}, wr \in {Min2(xRightRaw, xRightPoly)}})

\* the corner, in a sequence, when the test on its height holds
cornerIf(test, corner) == IF test THEN <<corner>> ELSE << >>

zonePaths(view, world, yBot, yTop, pL_Top, pR_Top, pL_Bot, pR_Bot, top, bot) ==
    Val({[green |-> <<toScreen(view, Pt(top.left, yTop)), toScreen(view, Pt(top.right, yTop)),
                      toScreen(view, Pt(bot.right, yBot)), toScreen(view, Pt(bot.left, yBot))>>,
          redLeft |-> <<toScreen(view, pL_Top), toScreen(view, Pt(top.left, yTop)),
                        toScreen(view, Pt(bot.left, yBot)), toScreen(view, pL_Bot)>>
                      \o cornerIf(world.leftCorner.y > yBot /\ world.leftCorner.y < yTop,
                                  leftCorner),
          redRight |-> <<toScreen(view, Pt(top.right, yTop)), toScreen(view, pR_Top)>>
                       \o cornerIf(world.rightCorner.y > yBot /\ world.rightCorner.y < yTop,
                                   rightCorner)
                       \o <<toScreen(view, pR_Bot), toScreen(view, Pt(bot.right, yBot))>>,
          blueBottom |-> <<toScreen(view, pL_Bot)>>
                         \o cornerIf(world.leftCorner.y < yBot, leftCorner)
                         \o <<toScreen(view, world.pin), toScreen(view, world.rc)>>
                         \o cornerIf(world.rightCorner.y < yBot, rightCorner)
                         \o <<toScreen(view, pR_Bot)>>,
          blueTop |-> <<toScreen(view, world.mark), toScreen(view, pR_Top),
                        toScreen(view, pL_Top)>>]
         : leftCorner \in {toScreen(view, world.leftCorner)},
           rightCorner \in {toScreen(view, world.rightCorner)}})

zonesAt(cfg, view, world, yBot, yTop, angleWarnL, angleWarnR) ==
    Val({zonePaths(view, world, yBot, yTop, pL_Top, pR_Top, pL_Bot, pR_Bot,
                   warnPair(getXOnLine(world.mark, angleWarnL, yTop),
                            getXOnLine(world.mark, angleWarnR, yTop),
                            pL_Top.x, pR_Top.x),
                   warnPair(getXOnLine(world.mark, angleWarnL, yBot),
                            getXOnLine(world.mark, angleWarnR, yBot),
                            pL_Bot.x, pR_Bot.x))
         : pL_Top \in {Pt(getXOnPoly(world.leftCorner, world.pin, world.mark, yTop), yTop)},
           pR_Top \in {Pt(getXOnPoly(world.rightCorner, world.rc, world.mark, yTop), yTop)},
           pL_Bot \in {Pt(getXOnPoly(world.leftCorner, world.pin, world.mark, yBot), yBot)},
           pR_Bot \in {Pt(getXOnPoly(world.rightCorner, world.rc, world.mark, yBot), yBot)}})

zones(cfg, view, world) ==
    IF cfg.showZones /\ world.leftCorner # Null /\ world.rightCorner # Null
    THEN Val({zonesAt(cfg, view, world,
                      Mul(cfg.courseLength, Num(15, 100)),
                      Mul(cfg.courseLength, Num(85, 100)),
                      bisect(angleWind, angleFromMark(world.leftCorner, world.mark)),
                      bisect(angleWind, angleFromMark(world.rightCorner, world.mark)))
              : angleWind \in {JsMod(cfg.windDirection + Num(180, 1), Num(360, 1))}})
    ELSE Null

\* calculateLayerData(cfg) in a render with the scaling view
layerData(cfg, view, world) ==
    Val({[ladderRungs |-> ladderRungs(cfg, view),
          laylines |-> [leftCorner |-> leftCorner, rightCorner |-> rightCorner,
                        pinLoc |-> pinLoc, rcLoc |-> rcLoc, markLoc |-> markLoc],
          polyPath |-> polyPath(pinLoc, leftCorner, markLoc, rightCorner, rcLoc),
          boatVectors |-> [portCOG |-> world.portCOG, stbdCOG |-> world.stbdCOG],
          windLine |-> windLine(cfg, view, world),
          zones |-> zones(cfg, view, world),
          rotation |-> [pinRotation |-> -cfg.startLineBias,
                        rcRotation |-> cfg.windDirection]]
         : pinLoc \in {toScreen(view, world.pin)},
           rcLoc \in {toScreen(view, world.rc)},
           markLoc \in {toScreen(view, world.mark)},
           leftCorner \in {toScreenOrNull(view, world.leftCorner)},
           rightCorner \in {toScreenOrNull(view, world.rightCorner)}})

calculateLayerData(cfg, view) == layerData(cfg, view, courseWorld(cfg))

(***************************************************************************)
(* RegattaMap.tsx, useMemo: a layer is recomputed in a render whose        *)
(* dependencies changed, and kept otherwise.  A held layer is represented  *)
(* by the run of calculateLayerData that produced it: the configuration it *)
(* was applied to and the scaling of the render it ran in.                 *)
(***************************************************************************)
layerRun(cfg, live, w, h) == [cfg |-> cfg, view |-> viewOf(live, w, h)]

useMemo(held, depsChanged, fresh) == IF depsChanged THEN fresh ELSE held

\* the dependency list [config, width, height]
currentDeps(configIsNew, widthIsNew, heightIsNew) ==
    configIsNew \/ widthIsNew \/ heightIsNew

comparisonDeps_configOnly(comparisonIsNew, widthIsNew, heightIsNew) ==
    comparisonIsNew

\* the dependency list [comparisonConfig, width, height]
comparisonDeps(comparisonIsNew, widthIsNew, heightIsNew) ==
    comparisonIsNew \/ widthIsNew \/ heightIsNew

\* one render of RegattaMap with the props cfg, cmp, w, h; configIsNew and
\* comparisonIsNew say whether the prop is another object than in the render
\* before
render(cfg, cmp, w, h, configIsNew, comparisonIsNew) ==
    /\ config' = cfg
    /\ comparisonConfig' = cmp
    /\ width' = w
    /\ height' = h
    /\ currentMemo' = useMemo(currentMemo,
                              currentDeps(configIsNew, w # width, h # height),
                              layerRun(cfg, cfg, w, h))
    /\ comparisonMemo' = useMemo(comparisonMemo,
                                 comparisonDeps(comparisonIsNew, w # width, h # height),
                                 IF cmp = Null THEN Null ELSE layerRun(cmp, cfg, w, h))

currentLayer == calculateLayerData(currentMemo.cfg, currentMemo.view)

comparisonLayer ==
    IF comparisonMemo = Null THEN Null
    ELSE calculateLayerData(comparisonMemo.cfg, comparisonMemo.view)

(***************************************************************************)
(* Spec: App.tsx with its Controls panel.                                  *)
(***************************************************************************)
MaxEdits == 2

Widths == {Metres(1200, 1), Metres(800, 1)}
Heights == {Metres(800, 1), Metres(600, 1)}

\* useState<Boat[]>: both boats hidden, X on starboard and Y on port tack
InitialBoats ==
    <<[id |-> "X", position |-> Pt(-Metres(50, 1), Metres(150, 1)),
       tack |-> "stbd", visible |-> FALSE],
      [id |-> "Y", position |-> Pt(Metres(50, 1), Metres(150, 1)),
       tack |-> "port", visible |-> FALSE]>>

\* the state after the first render and the initial handleResize
AppInitAt(w, h) ==
    /\ config = DEFAULT_CONFIG
    /\ comparisonConfig = Null
    /\ width = w
    /\ height = h
    /\ currentMemo = layerRun(DEFAULT_CONFIG, DEFAULT_CONFIG, w, h)
    /\ comparisonMemo = Null
    /\ edits = 0
    /\ boats = InitialBoats
    /\ dragging = NotDragging
    /\ dragStart = Null

AppInit ==
    /\ call = Idle
    /\ ret = << >>
    /\ \E w \in Widths, h \in Heights : AppInitAt(w, h)

\* setConfig(c) with a new object c
setConfig(c) ==
    /\ render(c, comparisonConfig, width, height, TRUE, FALSE)
    /\ UNCHANGED <<mathVars, uiVars>>

\* Controls: onChange({ ...config, [key]: value })
handleChange(key, value) ==
    /\ edits < MaxEdits
    /\ edits' = edits + 1
    /\ setConfig([config EXCEPT ![key] = value])

\* values the sliders and their manual entry are set to
SliderInputs ==
    {<<"startLineLength", Metres(50, 1)>>, <<"startLineLength", Metres(500, 1)>>,
     <<"startLineBias", -Num(30, 1)>>, <<"startLineBias", Num(10, 1)>>,
     <<"markShift", -Metres(300, 1)>>, <<"markShift", Metres(100, 1)>>,
     <<"windSpeed", Num(6, 1)>>, <<"windSpeed", Num(20, 1)>>,
     <<"currentSpeed", Num(15, 10)>>}

SliderChange == \E input \in SliderInputs : handleChange(input[1], input[2])

\* manual entry of a direction, val % 360
DirectionEntry ==
    \E key \in {"windDirection", "currentDirection"}, val \in {Num(360, 1), Num(45, 1)} :
        handleChange(key, JsMod(val, Num(360, 1)))

CheckboxChange ==
    \E key \in {"showLadderRungs", "showLaylines", "showWindLine", "showZones"} :
        handleChange(key, ~config[key])

adjustWind(delta) ==
    \E newDir \in {JsMod(config.windDirection + delta, Num(360, 1))} :
        handleChange("windDirection",
                     IF newDir < 0 THEN newDir + Num(360, 1) ELSE newDir)

AdjustWind == \E delta \in {-Num(5, 1), -Num(1, 1), Num(1, 1), Num(5, 1)} : adjustWind(delta)

setWind(dir) == handleChange("windDirection", dir)

SetWindNorth == setWind(0)

handleWindSliderChange(val) ==
    handleChange("windDirection", JsMod(val + Num(360, 1), Num(360, 1)))

WindSliderChange == \E val \in {-Num(20, 1), Num(30, 1)} : handleWindSliderChange(val)

handleCurrentSliderChange(val) ==
    handleChange("currentDirection", JsMod(val + Num(360, 1), Num(360, 1)))

CurrentSliderChange == \E val \in {-Num(90, 1), Num(45, 1)} : handleCurrentSliderChange(val)

\* Compare that snapshots the live configuration again instead of clearing
handleToggleComparison_resnapshot ==
    /\ render(config, config, width, height, FALSE, TRUE)
    /\ UNCHANGED <<mathVars, edits, uiVars>>

\* Compare: freeze a copy of the live configuration, or clear the frozen one
handleToggleComparison ==
    /\ render(config, IF comparisonConfig # Null THEN Null ELSE config,
              width, height, FALSE, TRUE)
    /\ UNCHANGED <<mathVars, edits, uiVars>>

\* Reset that puts the boats back as well
handleReset_resetsBoats ==
    /\ render(DEFAULT_CONFIG, comparisonConfig, width, height, TRUE, FALSE)
    /\ boats' = InitialBoats
    /\ UNCHANGED <<mathVars, edits, dragging, dragStart>>

\* Reset that clears the frozen configuration as well
handleReset_clearsComparison ==
    /\ render(DEFAULT_CONFIG, Null, width, height, TRUE, comparisonConfig # Null)
    /\ UNCHANGED <<mathVars, edits, uiVars>>

\* Reset: the live configuration is DEFAULT_CONFIG again; when it already is,
\* recomputing the layer gives the layer held
handleReset ==
    /\ render(DEFAULT_CONFIG, comparisonConfig, width, height, TRUE, FALSE)
    /\ UNCHANGED <<mathVars, edits, uiVars>>

handleResize ==
    \E w \in Widths, h \in Heights :
        /\ render(config, comparisonConfig, w, h, FALSE, FALSE)
        /\ UNCHANGED <<mathVars, edits, uiVars>>

(***************************************************************************)
(* Controls.tsx, ControlSlider: manual entry and double click.             *)
(***************************************************************************)
\* handleCommit without the clamp
handleCommit_unclamped(val, min, max) == val

\* handleCommit: the number typed, clamped to [min, max]
handleCommit(val, min, max) ==
    Val({IF v > max THEN max ELSE v : v \in {IF val < min THEN min ELSE val}})

\* the props min, max and defaultValue of the seven sliders
ControlSliders ==
    [startLineLength |-> [min |-> Metres(50, 1), max |-> Metres(500, 1),
                          defaultValue |-> Metres(200, 1)],
     startLineBias |-> [min |-> -Num(30, 1), max |-> Num(30, 1), defaultValue |-> 0],
     markShift |-> [min |-> -Metres(300, 1), max |-> Metres(300, 1), defaultValue |-> 0],
     windDirection |-> [min |-> 0, max |-> Num(360, 1), defaultValue |-> 0],
     windSpeed |-> [min |-> Num(1, 1), max |-> Num(30, 1), defaultValue |-> Num(12, 1)],
     currentDirection |-> [min |-> 0, max |-> Num(360, 1), defaultValue |-> Num(90, 1)],
     currentSpeed |-> [min |-> 0, max |-> Num(6, 1), defaultValue |-> 0]]

\* the prop onChange of a slider: the two directions are taken % 360
sliderOnChange(key, val) ==
    handleChange(key, IF key \in {"windDirection", "currentDirection"}
                      THEN JsMod(val, Num(360, 1))
                      ELSE val)

\* numbers typed into the manual entry, in and out of the range of the slider
ManualInputs ==
    {<<"windDirection", -Num(5, 1)>>, <<"windDirection", Num(400, 1)>>,
     <<"windDirection", Num(3597, 10)>>, <<"currentDirection", Num(400, 1)>>,
     <<"currentDirection", -Num(1, 1)>>, <<"currentSpeed", Num(7, 1)>>,
     <<"windSpeed", 0>>, <<"markShift", Metres(1000, 1)>>,
     <<"startLineLength", 0>>}

ManualEntry ==
    \E input \in ManualInputs :
        sliderOnChange(input[1], handleCommit(input[2], ControlSliders[input[1]].min,
                                              ControlSliders[input[1]].max))

\* onDoubleClick of a slider: onChange(defaultValue)
SliderDoubleClick ==
    \E key \in DOMAIN ControlSliders :
        sliderOnChange(key, ControlSliders[key].defaultValue)

\* setBoats(newBoats): RegattaMap renders again with the props config,
\* comparisonConfig, width and height it had, and keeps both layers
onBoatsChange(newBoats) ==
    /\ edits < MaxEdits
    /\ edits' = edits + 1
    /\ boats' = newBoats
    /\ UNCHANGED <<mathVars, renderVars>>

\* boats.map(b => b.id === id ? { ...b, visible: !b.visible } : b)
toggleBoat(id) ==
    /\ onBoatsChange([i \in 1..Len(boats) |->
                         IF boats[i].id = id
                         THEN [boats[i] EXCEPT !.visible = ~boats[i].visible]
                         ELSE boats[i]])
    /\ UNCHANGED <<dragging, dragStart>>

ToggleBoat == \E id \in {"X", "Y"} : toggleBoat(id)

(***************************************************************************)
(* RegattaMap.tsx, interaction: the pointer handlers of the wind control,  *)
(* the current control and the boats.  Pointer positions are relative to   *)
(* the map.                                                                *)
(***************************************************************************)
\* Math.round: the nearest integer, a half rounded up
MathRound(x) == ((x + UNIT \div 2) \div UNIT) * UNIT

\* parseFloat(x.toFixed(1)): the nearest tenth
toFixed1(x) == ((x + UNIT \div 20) \div (UNIT \div 10)) * (UNIT \div 10)

CONTROL_RADIUS == Metres(50, 1)
WIND_MAX_SPEED == Num(30, 1)
CURRENT_MAX_SPEED == Num(6, 1)

currentCenter == Pt(Metres(80, 1), Metres(100, 1))
windCenter == Pt(width - Metres(80, 1), Metres(100, 1))

\* the prop onConfigChange of RegattaMap: setConfig
onConfigChange(c) ==
    /\ edits < MaxEdits
    /\ edits' = edits + 1
    /\ setConfig(c)

handlePointerDown(type, e) ==
    /\ dragging' = type
    /\ dragStart' = e
    /\ UNCHANGED <<mathVars, renderVars, edits, boats>>

\* the pointer goes down on the wind control, on the current control or on a
\* boat that is shown, at the centre of each
PointerDown ==
    \/ handlePointerDown("wind", windCenter)
    \/ handlePointerDown("current", currentCenter)
    \/ \E i \in 1..Len(boats) :
          /\ boats[i].visible
          /\ handlePointerDown(IF boats[i].id = "X" THEN "boatX" ELSE "boatY",
                               toScreen(viewOf(config, width, height), boats[i].position))

\* the compass angle of the drag from the centre of the control, in [0, 360)
dragAngle(dx, dy) ==
    Val({IF a < 0 THEN a + Num(360, 1) ELSE a : a \in {toDegrees(MathAtan2(dx, -dy))}})

\* the speed of the drag distance: (dist / CONTROL_RADIUS) * maxSpeed
dragSpeed(dx, dy, maxSpeed) == Mul(Div(MathHypot(dx, dy), CONTROL_RADIUS), maxSpeed)

draggedWind(dx, dy) ==
    [config EXCEPT
        !.windDirection = MathRound(JsMod(dragAngle(dx, dy) + Num(180, 1), Num(360, 1))),
        !.windSpeed = MathRound(Min2(Max2(dragSpeed(dx, dy, WIND_MAX_SPEED), Num(1, 1)),
                                     Num(30, 1)))]

draggedCurrent(dx, dy) ==
    [config EXCEPT
        !.currentDirection = MathRound(dragAngle(dx, dy)),
        !.currentSpeed = toFixed1(Min2(Max2(dragSpeed(dx, dy, CURRENT_MAX_SPEED), 0),
                                       Num(6, 1)))]

handlePointerMove(e) ==
    /\ dragging # NotDragging
    /\ IF dragging \in {"boatX", "boatY"}
       THEN /\ edits < MaxEdits
            /\ edits' = edits + 1
            /\ \E worldPos \in {toWorld(viewOf(config, width, height), e)} :
                  boats' = [i \in 1..Len(boats) |->
                               IF boats[i].id = (IF dragging = "boatX" THEN "X" ELSE "Y")
                               THEN [boats[i] EXCEPT !.position = worldPos]
                               ELSE boats[i]]
            /\ UNCHANGED <<mathVars, renderVars, dragging, dragStart>>
       ELSE IF dragging = "wind"
            THEN onConfigChange(draggedWind(e.x - windCenter.x, e.y - windCenter.y))
            ELSE onConfigChange(draggedCurrent(e.x - currentCenter.x, e.y - currentCenter.y))

\* how far, in pixels right and down, the pointer is moved from the place it
\* went down at
DragOffsets ==
    {<<Metres(1, 1), Metres(200, 1)>>, <<Metres(30, 1), -Metres(40, 1)>>}

PointerMove ==
    \E off \in DragOffsets :
        /\ dragStart # Null
        /\ handlePointerMove(Pt(dragStart.x + off[1], dragStart.y + off[2]))

\* handlePointerUp leaving the drag in progress
handlePointerUp_keepsDragging(e) ==
    /\ UNCHANGED <<dragging, dragStart>>
    /\ IF /\ dragging \in {"boatX", "boatY"}
          /\ dragStart # Null
          /\ MathHypot(e.x - dragStart.x, e.y - dragStart.y) < Metres(5, 1)
       THEN /\ edits < MaxEdits
            /\ edits' = edits + 1
            /\ boats' = [i \in 1..Len(boats) |->
                           IF boats[i].id = (IF dragging = "boatX" THEN "X" ELSE "Y")
                           THEN [boats[i] EXCEPT !.tack = IF boats[i].tack = "port"
                                                          THEN "stbd" ELSE "port"]
                           ELSE boats[i]]
       ELSE UNCHANGED <<edits, boats>>
    /\ UNCHANGED <<mathVars, renderVars>>

\* handlePointerUp taking a release at the click distance for a click
handlePointerUp_clickAtFive(e) ==
    /\ dragging' = NotDragging
    /\ dragStart' = Null
    /\ IF /\ dragging \in {"boatX", "boatY"}
          /\ dragStart # Null
          /\ MathHypot(e.x - dragStart.x, e.y - dragStart.y) <= Metres(5, 1)
       THEN /\ edits < MaxEdits
            /\ edits' = edits + 1
            /\ boats' = [i \in 1..Len(boats) |->
                           IF boats[i].id = (IF dragging = "boatX" THEN "X" ELSE "Y")
                           THEN [boats[i] EXCEPT !.tack = IF boats[i].tack = "port"
                                                          THEN "stbd" ELSE "port"]
                           ELSE boats[i]]
       ELSE UNCHANGED <<edits, boats>>
    /\ UNCHANGED <<mathVars, renderVars>>

handlePointerUp(e) ==
    /\ dragging' = NotDragging
    /\ dragStart' = Null
    /\ IF /\ dragging \in {"boatX", "boatY"}
          /\ dragStart # Null
          /\ MathHypot(e.x - dragStart.x, e.y - dragStart.y) < Metres(5, 1)
       THEN /\ edits < MaxEdits
            /\ edits' = edits + 1
            /\ boats' = [i \in 1..Len(boats) |->
                           IF boats[i].id = (IF dragging = "boatX" THEN "X" ELSE "Y")
                           THEN [boats[i] EXCEPT !.tack = IF boats[i].tack = "port"
                                                          THEN "stbd" ELSE "port"]
                           ELSE boats[i]]
       ELSE UNCHANGED <<edits, boats>>
    /\ UNCHANGED <<mathVars, renderVars>>

\* where the pointer is released: in place, within the click distance, at it
\* and far off
ReleaseOffsets ==
    {<<0, 0>>, <<Metres(2, 1), Metres(2, 1)>>, <<Metres(3, 1), Metres(4, 1)>>,
     <<Metres(30, 1), -Metres(40, 1)>>}

PointerUp ==
    /\ dragging # NotDragging
    /\ \E off \in ReleaseOffsets :
          handlePointerUp(Pt(dragStart.x + off[1], dragStart.y + off[2]))

\* onDoubleClick of the wind control and of the current control
WindDoubleClick ==
    onConfigChange([config EXCEPT !.windDirection = DEFAULT_CONFIG.windDirection,
                                  !.windSpeed = DEFAULT_CONFIG.windSpeed])

CurrentDoubleClick ==
    onConfigChange([config EXCEPT !.currentDirection = DEFAULT_CONFIG.currentDirection,
                                  !.currentSpeed = DEFAULT_CONFIG.currentSpeed])

Init == AppInit

Next ==
    \/ SliderChange
    \/ DirectionEntry
    \/ CheckboxChange
    \/ AdjustWind
    \/ SetWindNorth
    \/ WindSliderChange
    \/ CurrentSliderChange
    \/ ManualEntry
    \/ SliderDoubleClick
    \/ ToggleBoat
    \/ PointerDown
    \/ PointerMove
    \/ PointerUp
    \/ WindDoubleClick
    \/ CurrentDoubleClick
    \/ handleToggleComparison
    \/ handleReset
    \/ handleResize

Spec == Init /\ [][Next]_vars

(***************************************************************************)
(* SpecMap: RegattaMap as a component, rendered by a parent with props     *)
(* drawn from bounded sets.  courseLength is a field of the config prop    *)
(* like any other.                                                         *)
(***************************************************************************)
MapConfigs ==
    {[DEFAULT_CONFIG EXCEPT !.courseLength = len, !.windDirection = dir,
                            !.showZones = z]
     : len \in {Metres(1000, 1), Metres(2000, 1)},
       dir \in {0, Num(340, 1)},
       z \in BOOLEAN}

MapInit ==
    /\ call = Idle
    /\ ret = << >>
    /\ edits = 0
    /\ boats = InitialBoats
    /\ dragging = NotDragging
    /\ dragStart = Null
    /\ \E cfg \in MapConfigs, cmp \in MapConfigs \cup {Null}, w \in Widths, h \in Heights :
          /\ config = cfg
          /\ comparisonConfig = cmp
          /\ width = w
          /\ height = h
          /\ currentMemo = layerRun(cfg, cfg, w, h)
          /\ comparisonMemo = IF cmp = Null THEN Null ELSE layerRun(cmp, cfg, w, h)

\* a render with another config object
Map_renderConfig ==
    \E cfg \in MapConfigs :
        /\ render(cfg, comparisonConfig, width, height, TRUE, FALSE)
        /\ UNCHANGED <<mathVars, edits, uiVars>>

\* a render with another comparisonConfig object, or none
Map_renderComparison ==
    \E cmp \in MapConfigs \cup {Null} :
        /\ render(config, cmp, width, height, FALSE, TRUE)
        /\ UNCHANGED <<mathVars, edits, uiVars>>

\* a render with another size
Map_renderSize ==
    \E w \in Widths, h \in Heights :
        /\ render(config, comparisonConfig, w, h, FALSE, FALSE)
        /\ UNCHANGED <<mathVars, edits, uiVars>>

MapNext ==
    \/ Map_renderConfig
    \/ Map_renderComparison
    \/ Map_renderSize

SpecMap == MapInit /\ [][MapNext]_vars

(***************************************************************************)
(* SpecMath: the pure functions of sailingMath.ts applied to inputs drawn  *)
(* from bounded sets.  A call is made from the idle state and returns to   *)
(* it; a call of getUpwindTWA may also follow another one, and a call of   *)
(* calculateBoatSpeed may be repeated with the angle moved by Epsilon.     *)
(***************************************************************************)
MaxWind == 35
WindDirStep == 15

\* wind speeds 0, 0.5, 1, ... MaxWind knots
WindSpeeds == {Quot(k * UNIT, 2) : k \in 0..(2 * MaxWind)}
\* whole degrees 0..359
Degrees == {Num(d, 1) : d \in 0..359}
WindDirs == {a \in Degrees : a % Num(WindDirStep, 1) = 0} \cup {Num(7, 2), Num(3595, 10)}
CurrentDirs == {Num(0, 1), Num(90, 1), Num(200, 1)}
CurrentSpeeds == {0, Num(1, 1), Num(6, 1)}
Tacks == {"port", "stbd"}
Epsilon == Num(1, 1000)
\* the breakpoints of getUpwindTWA and the speeds Epsilon below and above them
NearBreakpoints ==
    {Num(b, 1) + e : b \in {4, 10, 20}, e \in {-Epsilon, 0, Epsilon}}

Call_getUpwindTWA ==
    /\ call.fn \in {"idle", "getUpwindTWA"}
    /\ UNCHANGED appVars
    /\ \E w \in WindSpeeds \cup NearBreakpoints :
          /\ call' = [fn |-> "getUpwindTWA", w |-> w]
          /\ ret' = <<getUpwindTWA(w)>>

Call_getTackingAngles ==
    /\ call.fn = "idle"
    /\ UNCHANGED appVars
    /\ \E windDir \in WindDirs, w \in WindSpeeds :
          /\ call' = [fn |-> "getTackingAngles", windDir |-> windDir, w |-> w]
          /\ ret' = <<getTackingAngles(windDir, w)>>

Call_calculateBoatSpeed ==
    /\ call.fn = "idle"
    /\ UNCHANGED appVars
    /\ \E w \in WindSpeeds :
         \E twa \in Degrees \cup {getUpwindTWA(w)} :
          /\ call' = [fn |-> "calculateBoatSpeed", twa |-> twa, w |-> w,
                      moved |-> FALSE]
          /\ ret' = <<calculateBoatSpeed(twa, w)>>

\* the same wind, the angle Epsilon further or nearer
Move_calculateBoatSpeed ==
    /\ call.fn = "calculateBoatSpeed"
    /\ UNCHANGED appVars
    /\ ~call.moved
    /\ \E twa \in {call.twa - Epsilon, call.twa + Epsilon} :
          /\ twa >= 0
          /\ twa < Num(360, 1)
          /\ call' = [call EXCEPT !.twa = twa, !.moved = TRUE]
          /\ ret' = <<calculateBoatSpeed(twa, call.w)>>

Call_getGroundVector ==
    /\ call.fn = "idle"
    /\ UNCHANGED appVars
    /\ \E windDir \in WindDirs, w \in WindSpeeds, currentDir \in CurrentDirs,
          currentSpeed \in CurrentSpeeds, tack \in Tacks :
          /\ w % Num(5, 2) = 0
          /\ call' = [fn |-> "getGroundVector", windDir |-> windDir, w |-> w,
                      currentDir |-> currentDir, currentSpeed |-> currentSpeed,
                      tack |-> tack]
          /\ ret' = <<getGroundVector(windDir, w, currentDir, currentSpeed, tack)>>

LinePoints == {Pt(0, 0), Pt(Metres(-100, 1), 0), Pt(Metres(100, 1), 0),
               Pt(Metres(30, 1), Metres(1000, 1))}
LineAngles == {Num(0, 1), Num(30, 1), Num(412, 10), Num(90, 1), Num(180, 1),
               Num(210, 1), Num(2212, 10), Num(270, 1), Num(3188, 10)}

Call_intersectLines ==
    /\ call.fn = "idle"
    /\ UNCHANGED appVars
    /\ \E p1 \in LinePoints, p2 \in LinePoints, angle1 \in LineAngles,
          angle2 \in LineAngles :
          /\ call' = [fn |-> "intersectLines", p1 |-> p1, angle1 |-> angle1,
                      p2 |-> p2, angle2 |-> angle2]
          /\ ret' = <<intersectLines(p1, angle1, p2, angle2)>>

Return ==
    /\ call.fn # "idle"
    /\ UNCHANGED appVars
    /\ call' = Idle
    /\ ret' = << >>

MathInit ==
    /\ call = Idle
    /\ ret = << >>
    /\ AppInitAt(Metres(1200, 1), Metres(800, 1))

MathNext ==
    \/ Call_getUpwindTWA
    \/ Call_getTackingAngles
    \/ Call_calculateBoatSpeed
    \/ Move_calculateBoatSpeed
    \/ Call_getGroundVector
    \/ Call_intersectLines
    \/ Return

SpecMath == MathInit /\ [][MathNext]_vars

(***************************************************************************)
(* SpecLayer: calculateLayerData applied to configurations drawn from      *)
(* bounded sets, in a render of RegattaMap whose live configuration is the *)
(* configuration itself.                                                   *)
(***************************************************************************)
\* configurations over the ranges of the controls
GeneralConfigs ==
    {[DEFAULT_CONFIG EXCEPT !.windDirection = dir, !.windSpeed = w,
                            !.currentDirection = cdir, !.currentSpeed = c,
                            !.startLineBias = bias, !.markShift = shift,
                            !.showZones = TRUE]
     : dir \in {0, Num(20, 1), Num(340, 1)},
       w \in {Num(6, 1), Num(12, 1)},
       cdir \in {Num(90, 1), Num(200, 1)},
       c \in {0, Num(2, 1)},
       bias \in {-Num(30, 1), 0, Num(10, 1)},
       shift \in {-Metres(300, 1), 0, Metres(100, 1)}}

\* configurations for the ladder rungs: the wind from ahead, abeam, a twentieth
\* of a degree either side of abeam, and astern of the course axis, two course
\* lengths, rungs shown or not
RungConfigs ==
    {[DEFAULT_CONFIG EXCEPT !.windDirection = dir, !.courseLength = len,
                            !.markShift = shift, !.showLadderRungs = show]
     : dir \in {0, Num(8995, 100), Num(90, 1), Num(9005, 100), Num(180, 1)},
       len \in {Metres(1000, 1), Metres(1500, 1)},
       shift \in {0, -Metres(300, 1)},
       show \in BOOLEAN}

\* the speed of a current that, set dead downwind, holds the boat of wind speed
\* w level: the component of her close-hauled speed along the wind
holdingCurrent(w) ==
    Val({Mul(calculateBoatSpeed(twa, w), MathCos(toRadians(twa)))
         : twa \in {getUpwindTWA(w)}})

\* configurations with a strong current across or against the course, the
\* mark at both ends of its shift
CurrentConfigs ==
    {[DEFAULT_CONFIG EXCEPT !.windSpeed = w,
                            !.currentDirection = cdir, !.currentSpeed = c,
                            !.startLineBias = bias, !.markShift = shift,
                            !.showZones = TRUE]
     : w \in {Num(6, 1), Num(12, 1)},
       cdir \in {Num(90, 1), Num(180, 1), Num(270, 1)},
       c \in {Num(4, 1), Num(6, 1)},
       bias \in {0, Num(30, 1)},
       shift \in {-Metres(300, 1), 0, Metres(300, 1)}}

\* configurations whose current sets dead downwind at the holding speed: both
\* ground tracks lie across the wind
HoldingConfigs ==
    {[DEFAULT_CONFIG EXCEPT !.windDirection = dir, !.windSpeed = w,
                            !.currentDirection = JsMod(dir + Num(180, 1), Num(360, 1)),
                            !.currentSpeed = holdingCurrent(w),
                            !.markShift = shift, !.showZones = TRUE]
     : dir \in {0, Num(20, 1), Num(340, 1)},
       w \in {Num(6, 1), Num(12, 1)},
       shift \in {-Metres(300, 1), 0}}

LayerConfigs == GeneralConfigs \cup RungConfigs \cup CurrentConfigs \cup HoldingConfigs

\* sizes of the map: the two of the App model, a square one and a wide one
LayerViews ==
    {<<Metres(1200, 1), Metres(800, 1)>>, <<Metres(800, 1), Metres(600, 1)>>,
     <<Metres(800, 1), Metres(800, 1)>>, <<Metres(1536, 1), Metres(600, 1)>>}

Call_calculateLayerData ==
    /\ call.fn = "idle"
    /\ UNCHANGED appVars
    /\ \E cfg \in LayerConfigs, size \in LayerViews :
          /\ call' = [fn |-> "calculateLayerData", cfg |-> cfg,
                      width |-> size[1], height |-> size[2]]
          /\ ret' = <<calculateLayerData(cfg, viewOf(cfg, size[1], size[2]))>>

LayerNext ==
    \/ Call_calculateLayerData
    \/ Return

SpecLayer == MathInit /\ [][LayerNext]_vars

(***************************************************************************)
(* SpecBatch: App.tsx when the render after a pointer move is deferred.    *)
(* Every handler calls setConfig with an object spread from the config     *)
(* prop of the render it was created in.  A change of a slider or a        *)
(* checkbox is rendered before the next event; the setConfig of a pointer  *)
(* move is queued, the state takes the object at once and the render that  *)
(* hands it to the handlers comes later, so that another handler may run   *)
(* before it.                                                              *)
(***************************************************************************)
\* the config prop of the latest render, which the handlers of Controls and
\* RegattaMap close over
renderedConfig == currentMemo.cfg

\* setConfig(c) without the render
queueConfig(c) ==
    /\ edits < MaxEdits
    /\ edits' = edits + 1
    /\ config' = c
    /\ UNCHANGED <<mathVars, uiVars, comparisonConfig, width, height, currentMemo,
                   comparisonMemo>>

\* Controls: onChange({ ...config, [key]: value }) from the rendered config,
\* rendered at once
Stale_handleChange(key, value) ==
    /\ edits < MaxEdits
    /\ edits' = edits + 1
    /\ render([renderedConfig EXCEPT ![key] = value], comparisonConfig, width, height,
              TRUE, FALSE)
    /\ UNCHANGED <<mathVars, uiVars>>

Stale_SliderChange ==
    \E input \in SliderInputs : Stale_handleChange(input[1], input[2])

Stale_CheckboxChange ==
    \E key \in {"showLadderRungs", "showLaylines", "showWindLine", "showZones"} :
        Stale_handleChange(key, ~renderedConfig[key])

\* RegattaMap: the pointer goes down on the wind control; setDragging is
\* rendered at once, with nothing else pending
Queued_PointerDown ==
    /\ config = renderedConfig
    /\ handlePointerDown("wind", windCenter)

\* handlePointerMove of a wind drag:
\* onConfigChange({ ...config, windDirection, windSpeed }) from the rendered
\* config, the render still to come
Queued_handlePointerMove(e) ==
    /\ dragging = "wind"
    /\ queueConfig([renderedConfig EXCEPT
           !.windDirection = MathRound(JsMod(dragAngle(e.x - windCenter.x, e.y - windCenter.y)
                                             + Num(180, 1), Num(360, 1))),
           !.windSpeed = MathRound(Min2(Max2(dragSpeed(e.x - windCenter.x, e.y - windCenter.y,
                                                        WIND_MAX_SPEED), Num(1, 1)),
                                        Num(30, 1)))])

Queued_PointerMove ==
    \E off \in DragOffsets :
        /\ dragStart # Null
        /\ Queued_handlePointerMove(Pt(dragStart.x + off[1], dragStart.y + off[2]))

\* the deferred render: the components get the state as their config prop
Flush ==
    /\ config # renderedConfig
    /\ render(config, comparisonConfig, width, height, TRUE, FALSE)
    /\ UNCHANGED <<mathVars, edits, uiVars>>

BatchNext ==
    \/ Stale_SliderChange
    \/ Stale_CheckboxChange
    \/ Queued_PointerDown
    \/ Queued_PointerMove
    \/ Flush

SpecBatch == AppInit /\ [][BatchNext]_vars

(***************************************************************************)
(* The claims about sailingMath.ts, checked under SpecMath.                *)
(***************************************************************************)
\* what the model's rounding may add to a speed, an angle or a length
SpeedTolerance == Num(1, 10000)
AngleTolerance == Num(1, 1000)
LengthTolerance == Metres(1, 100)
\* the largest jump the continuity claim allows, 0.01 kn
MaxJump == Num(1, 100)

\* the distance of two compass angles around the circle
AngleDistance(a, b) ==
    LET d == (a - b) % Num(360, 1) IN Min2(d, Num(360, 1) - d)

IsBoatSpeedCall == call.fn = "calculateBoatSpeed"
\* a call of calculateBoatSpeed at the optimal upwind angle of its wind speed
IsUpwindSpeedCall == IsBoatSpeedCall /\ call.twa = getUpwindTWA(call.w)

\* C1 as stated: calculateBoatSpeed never returns more than 8.5 kn.
C1_NeverAboveHullSpeed == IsBoatSpeedCall => ret[1] <= MaxHullSpeed

\* C1 as amended: the speed is at most 8.5 kn whenever the angle off the wind is
\* at most getUpwindTWA(w) (no-go zone, upwind ramp and the optimal angle, where
\* it is the base max speed), and at most 1.3 * 8.5 = 11.05 kn at every angle.
C1_CappedUpwindAndBounded ==
    IsBoatSpeedCall =>
        /\ ret[1] <= Mul(MaxHullSpeed, Num(13, 10))
        /\ (offWindAngle(call.twa) <= getUpwindTWA(call.w) => ret[1] <= MaxHullSpeed)

\* C1 witness: at 35 kn the base max speed is cut to 8.5 kn at the optimal angle
C1_Witness == IsUpwindSpeedCall /\ call.w = Num(35, 1) /\ ret[1] = MaxHullSpeed

\* max(0.7 w, 3 + w/10), the light-air formula of the specification
LightAirMax(w) == Max2(Mul(w, Num(7, 10)), Num(3, 1) + Div(w, Num(10, 1)))
HeavyAir(w) == Num(62, 10) + Mul(w - Num(10, 1), Num(1, 10))

IsTwaCall == call.fn = "getUpwindTWA"

\* C3: getUpwindTWA(w) lies in [38, 50], is 50 for w <= 4, 42 at w = 10 and 38
\* for w >= 20; from one call to the next it does not increase when w does not
\* decrease, and it moves by at most 0.01 degree when w moves by at most
\* Epsilon (the two pieces agree at the breakpoints).
C3_TwaShape ==
    /\ [](IsTwaCall =>
            /\ ret[1] >= Num(38, 1)
            /\ ret[1] <= Num(50, 1)
            /\ (call.w <= Num(4, 1) => ret[1] = Num(50, 1))
            /\ (call.w = Num(10, 1) => ret[1] = Num(42, 1))
            /\ (call.w >= Num(20, 1) => ret[1] = Num(38, 1)))
    /\ [][(IsTwaCall /\ IsTwaCall') =>
            /\ (call.w <= call'.w => ret'[1] <= ret[1])
            /\ (Abs(call'.w - call.w) <= Epsilon => Abs(ret'[1] - ret[1]) <= Num(1, 100))
         ]_vars

\* C3 witness: 12 kn lies on the second piece, 42 - 0.2 * 4 = 41.2 degrees
C3_Witness == IsTwaCall /\ call.w = Num(12, 1) /\ ret[1] = Num(412, 10)

\* C4: calculateBoatSpeed is 0 at 30 degrees, the base max speed at
\* getUpwindTWA(w) and 1.15 times it at 90 degrees, and an angle Epsilon
\* further or nearer (across a region boundary or not) changes the speed by at
\* most 0.01 kn.
C4_ContinuousAtBoundaries ==
    /\ [](IsBoatSpeedCall /\ ~call.moved =>
            /\ (call.twa = Num(30, 1) => ret[1] = 0)
            /\ (call.twa = getUpwindTWA(call.w)
                  => ret[1] = baseMaxSpeed(call.w))
            /\ (call.twa = Num(90, 1)
                  => Abs(ret[1] - Mul(baseMaxSpeed(call.w), Num(115, 100)))
                       <= SpeedTolerance))
    /\ [][(IsBoatSpeedCall /\ IsBoatSpeedCall') =>
            Abs(ret'[1] - ret[1]) <= MaxJump]_vars

\* C4 witness: the angle has moved from 90 degrees into the downwind region
C4_Witness ==
    /\ IsBoatSpeedCall
    /\ call.moved
    /\ call.twa = Num(90, 1) + Epsilon
    /\ call.w = Num(12, 1)
    /\ ret[1] > Num(7, 1)

\* C5: calculateBoatSpeed is 0 whenever the angle, reflected to 360 - twa above
\* 180, is below 30 degrees, and is never negative.
C5_NoGoZone ==
    IsBoatSpeedCall =>
        /\ ret[1] >= 0
        /\ ((IF call.twa > Num(180, 1) THEN Num(360, 1) - call.twa ELSE call.twa)
              < Num(30, 1) => ret[1] = 0)

\* C5 witness: 345 degrees is 15 degrees off the wind on the other side
C5_Witness == IsBoatSpeedCall /\ call.twa = Num(345, 1) /\ call.w = Num(12, 1) /\ ret[1] = 0

IsTackingCall == call.fn = "getTackingAngles"

\* C6: both tack headings lie in [0, 360), portTack is windDir + twa and
\* starboardTack is windDir - twa modulo 360, and their difference is 2 twa
\* modulo 360.
C6_TackingAngles ==
    IsTackingCall =>
        /\ ret[1].twa = getUpwindTWA(call.w)
        /\ ret[1].portTack >= 0
        /\ ret[1].portTack < Num(360, 1)
        /\ ret[1].starboardTack >= 0
        /\ ret[1].starboardTack < Num(360, 1)
        /\ ret[1].portTack = (call.windDir + ret[1].twa) % Num(360, 1)
        /\ ret[1].starboardTack = (call.windDir - ret[1].twa) % Num(360, 1)
        /\ (ret[1].portTack - ret[1].starboardTack - 2 * ret[1].twa) % Num(360, 1) = 0

\* C6 witness: wind from 0 at 12 kn, the starboard heading wraps to 318.8
C6_Witness ==
    /\ IsTackingCall
    /\ call.windDir = 0
    /\ call.w = Num(12, 1)
    /\ ret[1].starboardTack = Num(3188, 10)

IsGroundCall == call.fn = "getGroundVector"

\* C7: with currentSpeed = 0, cog is the heading (modulo 360) and sog is
\* calculateBoatSpeed(getUpwindTWA(w), w), both within the rounding of the
\* arithmetic; the heading is the tack's heading of getTackingAngles.
C7_NoCurrentGroundVector ==
    IsGroundCall /\ call.currentSpeed = 0 =>
        /\ AngleDistance(ret[1].cog, ret[1].heading) <= AngleTolerance
        /\ Abs(ret[1].sog - calculateBoatSpeed(getUpwindTWA(call.w), call.w))
             <= SpeedTolerance
        /\ ret[1].heading =
             (IF call.tack = "port"
              THEN getTackingAngles(call.windDir, call.w).portTack
              ELSE getTackingAngles(call.windDir, call.w).starboardTack)
        /\ ret[1].cog >= 0
        /\ ret[1].cog < Num(360, 1)

\* C7 witness: no current, starboard tack, a heading beyond 180 degrees
C7_Witness ==
    /\ IsGroundCall
    /\ call.currentSpeed = 0
    /\ call.tack = "stbd"
    /\ call.windDir = 0
    /\ ret[1].heading > Num(300, 1)
    /\ ret[1].cog > Num(300, 1)
    /\ ret[1].sog > Num(3, 1)

IsIntersectCall == call.fn = "intersectLines"

\* the distance of point p from the line through q at compass angle a
DistanceFromLine(p, q, a) ==
    LET v == compassVector(a) IN Abs(Mul(p.x - q.x, v.y) - Mul(p.y - q.y, v.x))

\* C8: intersectLines returns null exactly when the absolute determinant of the
\* direction vectors is below 1e-4, hence for bearings that are equal or 180
\* degrees apart; perpendicular lines through the origin meet at the origin;
\* a result that is not null lies on both lines.
C8_IntersectLines ==
    IsIntersectCall =>
        LET v1 == compassVector(call.angle1)
            v2 == compassVector(call.angle2)
            det == Mul(v1.y, v2.x) - Mul(v1.x, v2.y)
            origin == Pt(0, 0)
        IN  /\ (ret[1] = Null) = (Abs(det) < Num(1, 10000))
            /\ ((call.angle1 - call.angle2) % Num(180, 1) = 0 => ret[1] = Null)
            /\ (/\ call.p1 = origin
                /\ call.p2 = origin
                /\ (call.angle1 - call.angle2) % Num(180, 1) = Num(90, 1)
                => ret[1] = origin)
            /\ (ret[1] # Null =>
                  /\ DistanceFromLine(ret[1], call.p1, call.angle1) <= LengthTolerance
                  /\ DistanceFromLine(ret[1], call.p2, call.angle2) <= LengthTolerance)

\* C8 witness: two lines 180 degrees apart through different points
C8_Witness ==
    /\ IsIntersectCall
    /\ call.angle1 = Num(30, 1)
    /\ call.angle2 = Num(210, 1)
    /\ call.p1 # call.p2
    /\ ret[1] = Null

(***************************************************************************)
(* Scenario comparison                                                     *)
(***************************************************************************)
ConfigFields == DOMAIN DEFAULT_CONFIG

EqualFieldByField(a, b) == \A f \in ConfigFields : a[f] = b[f]

C10_EqualConfigsEqualLayers ==
    (comparisonConfig # Null /\ EqualFieldByField(config, comparisonConfig)) =>
        currentLayer = comparisonLayer

\* C10 witness: an edited configuration with zones shown was frozen and is
\* still equal to the live one; both layers have rungs, a wind line and zones
C10_Witness ==
    /\ comparisonConfig # Null
    /\ EqualFieldByField(config, comparisonConfig)
    /\ config.showZones
    /\ config.windDirection = Num(5, 1)
    /\ comparisonLayer.zones # Null
    /\ comparisonLayer.windLine # Null
    /\ Len(comparisonLayer.ladderRungs) > 0
    /\ currentLayer = comparisonLayer

(***************************************************************************)
(* The layer builder, under SpecLayer                                      *)
(***************************************************************************)
IsLayerCall == call.fn = "calculateLayerData" /\ ret # << >>

\* C11: the pin and the RC boat are point-symmetric about the origin and the
\* start line has the length startLineLength whatever startLineBias is; with
\* startLineBias = 0 they are (-startLineLength/2, 0) and (startLineLength/2, 0);
\* the mark is (markShift, courseLength).
C11_StartLineAndMark ==
    IsLayerCall =>
        LET cfg == call.cfg
            pin == pinLocWorld(cfg)
            rc == rcLocWorld(cfg)
        IN  /\ pin.x = -rc.x
            /\ pin.y = -rc.y
            /\ Abs(MathHypot(rc.x - pin.x, rc.y - pin.y) - cfg.startLineLength)
                 <= LengthTolerance
            /\ cfg.startLineBias = 0 =>
                 /\ pin = Pt(-(cfg.startLineLength \div 2), 0)
                 /\ rc = Pt(cfg.startLineLength \div 2, 0)
            /\ markLocWorld(cfg) = Pt(cfg.markShift, cfg.courseLength)
            /\ ret[1].laylines.pinLoc = toScreen(viewOf(cfg, call.width, call.height), pin)

\* C11 witness: a start line rotated by a bias of -30 degrees, the mark shifted
C11_Witness ==
    /\ IsLayerCall
    /\ call.cfg.startLineBias = -Num(30, 1)
    /\ call.cfg.markShift = Metres(100, 1)
    /\ pinLocWorld(call.cfg).y # 0

\* the scaling of the render the layer of the current call was built in
callView == viewOf(call.cfg, call.width, call.height)

\* the middle of the segment from p to q
Midpoint(p, q) == Pt((p.x + q.x) \div 2, (p.y + q.y) \div 2)

\* C12 as stated: with showLadderRungs the layer has ceil(courseLength * 1.1 /
\* 100) + 1 rungs whatever the size of the map, with the distances 0, 100,
\* 200, ... in order and the first rung centred on the mark; without it the
\* layer has no rung.
C12_RungCount ==
    IsLayerCall =>
        LET rungs == ret[1].ladderRungs
        IN  IF call.cfg.showLadderRungs
            THEN /\ Len(rungs) = numRungs(call.cfg) + 1
                 /\ \A i \in 1..Len(rungs) : rungs[i].label = (i - 1) * 100
                 /\ Abs(Midpoint(rungs[1].p1, rungs[1].p2).x
                        - ret[1].laylines.markLoc.x) <= LengthTolerance
                 /\ Abs(Midpoint(rungs[1].p1, rungs[1].p2).y
                        - ret[1].laylines.markLoc.y) <= LengthTolerance
            ELSE rungs = << >>

\* the rectangle 20 pixels inside the map
InsideBounds(p) ==
    /\ p.x >= Metres(20, 1)
    /\ p.x <= call.width - Metres(20, 1)
    /\ p.y >= Metres(20, 1)
    /\ p.y <= call.height - Metres(20, 1)

OnBoundsEdge(p) ==
    \/ p.x \in {Metres(20, 1), call.width - Metres(20, 1)}
    \/ p.y \in {Metres(20, 1), call.height - Metres(20, 1)}

\* p lies on the segment from a to b, within LengthTolerance
OnSegment(p, a, b) ==
    /\ p.x >= Min2(a.x, b.x) - LengthTolerance
    /\ p.x <= Max2(a.x, b.x) + LengthTolerance
    /\ p.y >= Min2(a.y, b.y) - LengthTolerance
    /\ p.y <= Max2(a.y, b.y) + LengthTolerance
    /\ Abs(Div(Mul(b.x - a.x, p.y - a.y) - Mul(b.y - a.y, p.x - a.x),
               MathHypot(b.x - a.x, b.y - a.y))) <= LengthTolerance

callWorld == courseWorld(call.cfg)

\* the intersection of the ground track from a start mark with the layline
\* from the mark, before any clamping
analyticLeftCorner(cfg, world) ==
    intersectLines(world.pin, world.stbdCOG, world.mark, markLaylineAngle(world.portCOG))
analyticRightCorner(cfg, world) ==
    intersectLines(world.rc, world.portCOG, world.mark, markLaylineAngle(world.stbdCOG))

\* where the line through the mark (markShift, courseLength) at the compass
\* angle crosses y = 0
XInterceptFromMark(cfg, angle) ==
    LET x == getXAtY0(angle, cfg.courseLength)
    IN  IF Abs(x) = Infinity THEN x ELSE cfg.markShift + x

\* C14 as stated: the left corner is the pin exactly when the port layline from
\* the mark crosses y = 0 at an x greater than pin.x or the analytic
\* intersection has a negative y, and is the analytic intersection otherwise;
\* symmetrically for the right corner and the RC boat.
C14_CornerPolicy ==
    IsLayerCall =>
        LET cfg == call.cfg
            world == callWorld
            left == analyticLeftCorner(cfg, world)
            right == analyticRightCorner(cfg, world)
        IN  /\ world.leftCorner =
                 IF \/ XInterceptFromMark(cfg, markLaylineAngle(world.portCOG)) > world.pin.x
                    \/ (left # Null /\ left.y < 0)
                 THEN world.pin ELSE left
            /\ world.rightCorner =
                 IF \/ XInterceptFromMark(cfg, markLaylineAngle(world.stbdCOG)) < world.rc.x
                    \/ (right # Null /\ right.y < 0)
                 THEN world.rc ELSE right

\* C15: whenever intersectLines yields no solution for a corner, that corner
\* is the corresponding start mark, the other corner being decided on its own;
\* no corner is left undefined.
C15_NoSolutionDegradesToStartMark ==
    IsLayerCall =>
        LET cfg == call.cfg
            world == callWorld
        IN  /\ analyticLeftCorner(cfg, world) = Null => world.leftCorner = world.pin
            /\ analyticRightCorner(cfg, world) = Null => world.rightCorner = world.rc
            /\ world.leftCorner # Null
            /\ world.rightCorner # Null

\* C16: the polygon path is emitted exactly when both corners are non-null,
\* and then its vertices are pin, leftCorner, mark, rightCorner, RC in this
\* order; when a corner is null the path is empty and the layer has neither a
\* wind line nor zones.
C16_PolygonIffBothCorners ==
    IsLayerCall =>
        LET layer == ret[1]
            lay == layer.laylines
        IN  IF lay.leftCorner # Null /\ lay.rightCorner # Null
            THEN layer.polyPath = <<lay.pinLoc, lay.leftCorner, lay.markLoc,
                                    lay.rightCorner, lay.rcLoc>>
            ELSE /\ layer.polyPath = << >>
                 /\ layer.windLine = Null
                 /\ layer.zones = Null

\* a layer with one corner only, of a configuration that asks for the wind
\* line and the zones
C16_Witness ==
    /\ IsLayerCall
    /\ call.cfg.showWindLine /\ call.cfg.showZones
    /\ ret[1].laylines.leftCorner # Null
    /\ ret[1].laylines.rightCorner = Null
    /\ ret[1].polyPath = << >>
    /\ ret[1].zones = Null

\* twice the signed area of the triangle a, b, c, in square pixels: its sign
\* tells on which side of the line a b the point c lies
Orient(a, b, c) == Mul(b.x - a.x, c.y - a.y) - Mul(b.y - a.y, c.x - a.x)

OppositeSides(a, b, c, d) ==
    Val({(o1 > 0 /\ o2 < 0) \/ (o1 < 0 /\ o2 > 0)
         : o1 \in {Orient(a, b, c)}, o2 \in {Orient(a, b, d)}})

\* the segments a b and c d cross at a point interior to both
SegmentsCross(a, b, c, d) == OppositeSides(a, b, c, d) /\ OppositeSides(c, d, a, b)

\* edge i of the closed path runs from vertex i to the next vertex, the last
\* edge back to the first vertex
EdgeEnd(path, i) == path[(i % Len(path)) + 1]

SelfIntersecting(path) ==
    \E i, j \in 1..Len(path) :
        /\ i + 1 < j
        /\ ~(i = 1 /\ j = Len(path))
        /\ SegmentsCross(path[i], EdgeEnd(path, i), path[j], EdgeEnd(path, j))

\* C17: whenever the polygon is emitted, the closed polygon pin, leftCorner,
\* mark, rightCorner, RC has no two edges that cross, collapsed corners
\* included.
C17_PolygonNotSelfIntersecting ==
    (IsLayerCall /\ ret[1].polyPath # << >>) => ~SelfIntersecting(ret[1].polyPath)

\* the abscissas the zones are built from, read off the emitted polygons: the
\* field boundary (left, right) and the warning lines (warnLeft, warnRight) at
\* the upper band level (85% of the course length) and the lower one (15%)
zoneLevels(z) ==
    <<[left |-> z.blueTop[3].x, right |-> z.blueTop[2].x,
       warnLeft |-> z.green[1].x, warnRight |-> z.green[2].x],
      [left |-> z.blueBottom[1].x, right |-> z.blueBottom[Len(z.blueBottom)].x,
       warnLeft |-> z.green[4].x, warnRight |-> z.green[3].x]>>

Between(x, lo, hi) == lo <= x /\ x <= hi

\* C18: whenever zones are produced, at both band levels the warning-line
\* points, after clamping and merging, lie between the left and the right
\* boundary of the field at that level.
C18_WarningLinesInsideField ==
    (IsLayerCall /\ ret[1].zones # Null) =>
        \A i \in 1..2 :
            LET level == zoneLevels(ret[1].zones)[i]
            IN  /\ Between(level.warnLeft, level.left, level.right)
                /\ Between(level.warnRight, level.left, level.right)

(***************************************************************************)
(* The claims about the operations of the user interface, checked under    *)
(* Spec.                                                                   *)
(***************************************************************************)
InDirectionRange(dir) == 0 <= dir /\ dir < Num(360, 1)

\* C19: after any sequence of operations of the user interface, windDirection
\* and currentDirection are both in [0, 360).
C19_DirectionsInRange ==
    /\ InDirectionRange(config.windDirection)
    /\ InDirectionRange(config.currentDirection)

\* C20: while a comparison is active, a step that changes comparisonConfig is
\* a step of the Compare toggle; every other operation leaves the frozen
\* configuration as it was snapshotted.
C20_FrozenChangesOnlyByCompare ==
    [][(comparisonConfig # Null /\ comparisonConfig' # comparisonConfig)
          => handleToggleComparison]_vars

\* a comparison is active, frozen at the defaults, and since the snapshot the
\* live configuration and the boats have been changed
C20_Witness ==
    /\ comparisonConfig = DEFAULT_CONFIG
    /\ config # DEFAULT_CONFIG
    /\ boats # InitialBoats

\* C21: a step of the Compare toggle taken without a comparison freezes a
\* copy equal field by field to the live configuration, and one taken with a
\* comparison clears it; either way the live configuration, the boats and the
\* rest of the state are left as they were, and without a comparison no
\* frozen layer is held, so two presses lead back to the state before.
C21_ToggleAlternates ==
    [][handleToggleComparison =>
          /\ IF comparisonConfig = Null
             THEN /\ comparisonMemo = Null
                  /\ comparisonConfig' # Null
                  /\ EqualFieldByField(comparisonConfig', config)
             ELSE /\ comparisonConfig' = Null
                  /\ comparisonMemo' = Null
          /\ config' = config
          /\ boats' = boats
          /\ UNCHANGED <<width, height, currentMemo, edits, dragging, dragStart>>]_vars

\* a comparison frozen after the edits, still equal to the live configuration,
\* with a boat changed
C21_Witness ==
    /\ comparisonConfig # Null
    /\ EqualFieldByField(comparisonConfig, config)
    /\ config # DEFAULT_CONFIG
    /\ boats # InitialBoats

\* C22: a step of Reset makes every field of the live configuration that of
\* DEFAULT_CONFIG, the four show flags included, and leaves the frozen
\* configuration and both boats as they were.
C22_ResetFrame ==
    [][handleReset =>
          /\ \A f \in ConfigFields : config'[f] = DEFAULT_CONFIG[f]
          /\ ~config'.showZones
          /\ config'.showLadderRungs /\ config'.showLaylines /\ config'.showWindLine
          /\ comparisonConfig' = comparisonConfig
          /\ boats' = boats]_vars

\* after a Reset: the defaults live, a frozen snapshot that differs from them,
\* and a boat that is not where it started
C22_Witness ==
    /\ config = DEFAULT_CONFIG
    /\ comparisonConfig # Null
    /\ comparisonConfig # DEFAULT_CONFIG
    /\ boats # InitialBoats

\* the crossings of a rung of the current call with the sides of the bounds,
\* in the order in which they are found
rungCrossings(rung) ==
    rungIntersections(rung.p1, rung.p2.x - rung.p1.x, rung.p2.y - rung.p1.y,
                      rungBounds(callView))

\* C23 as stated: the label anchor of every rung is the crossing with the
\* smallest x and, among those with equal x, the smallest y; no crossing has a
\* strictly smaller x than the anchor.
C23_AnchorIsLeftmost ==
    IsLayerCall =>
        \A i \in 1..Len(ret[1].ladderRungs) :
            LET rung == ret[1].ladderRungs[i]
                xs == rungCrossings(rung)
            IN  \A k \in 1..Len(xs) :
                    /\ xs[k].x >= rung.labelPos.x
                    /\ xs[k].x = rung.labelPos.x => xs[k].y >= rung.labelPos.y

\* C23 amended: the anchor is one of the crossings; no crossing lies more than
\* one pixel to its left, and among the crossings within one pixel of its x
\* none has a smaller y.
C23_AnchorIsLeftmostWithinOnePixel ==
    IsLayerCall =>
        \A i \in 1..Len(ret[1].ladderRungs) :
            LET rung == ret[1].ladderRungs[i]
                xs == rungCrossings(rung)
            IN  /\ \E k \in 1..Len(xs) : xs[k] = rung.labelPos
                /\ \A k \in 1..Len(xs) :
                      /\ xs[k].x >= rung.labelPos.x - Metres(1, 1)
                      /\ Abs(xs[k].x - rung.labelPos.x) <= Metres(1, 1)
                            => xs[k].y >= rung.labelPos.y

\* a rung with two crossings less than a pixel apart in x, the anchor being
\* the upper one although the lower one lies further left
C23_Witness ==
    /\ IsLayerCall
    /\ \E i \in 1..Len(ret[1].ladderRungs) :
          LET rung == ret[1].ladderRungs[i]
              xs == rungCrossings(rung)
          IN  \E k \in 1..Len(xs) :
                  /\ xs[k].x < rung.labelPos.x
                  /\ xs[k].y > rung.labelPos.y

\* the downwind bearing of a configuration
downwindBearing(cfg) == JsMod(cfg.windDirection + Num(180, 1), Num(360, 1))

\* the distance made good from the mark to p along the bearing
alongBearing(mark, bearing, p) ==
    Val({Mul(p.x - mark.x, v.x) + Mul(p.y - mark.y, v.y) : v \in {compassVector(bearing)}})

\* the crossings of the wind axis through the mark with the three segments of
\* the field that lie below the mark and more than a metre from it; with
\* onlyDownwind, only those on the downwind side of the mark
windLineEnds(cfg, world, onlyDownwind) ==
    {h \in {segmentIntersect(world.leftCorner, world.pin, world.mark, downwindBearing(cfg)),
            segmentIntersect(world.pin, world.rc, world.mark, downwindBearing(cfg)),
            segmentIntersect(world.rc, world.rightCorner, world.mark, downwindBearing(cfg))}
       : /\ h # Null
         /\ h.y < world.mark.y
         /\ MathHypot(h.x - world.mark.x, h.y - world.mark.y) > Metres(1, 1)
         /\ onlyDownwind => alongBearing(world.mark, downwindBearing(cfg), h) > 0}

\* the wind line of the current call is there exactly when it is asked for and
\* both corners exist, starts at the mark and ends at the nearest of the given
\* ends, or courseLength metres down the downwind bearing when there is none
windLineClippedTo(ends) ==
    /\ ret[1].windLine # Null
          <=> /\ call.cfg.showWindLine
              /\ callWorld.leftCorner # Null /\ callWorld.rightCorner # Null
    /\ ret[1].windLine # Null =>
          /\ ret[1].windLine.p1 = toScreen(callView, callWorld.mark)
          /\ IF ends = {}
             THEN ret[1].windLine.p2
                      = toScreen(callView, projectPoint(callWorld.mark,
                                                        downwindBearing(call.cfg),
                                                        call.cfg.courseLength))
             ELSE \E end \in ends :
                      /\ ret[1].windLine.p2 = toScreen(callView, end)
                      /\ \A h \in ends :
                            MathHypot(end.x - callWorld.mark.x, end.y - callWorld.mark.y)
                               <= MathHypot(h.x - callWorld.mark.x, h.y - callWorld.mark.y)

\* C24: the wind line is produced exactly when showWindLine is set and both
\* corners exist; it starts at the mark and ends at the nearest crossing of the
\* line drawn from the mark down the downwind bearing with the segments
\* leftCorner-pin, pin-RC and RC-rightCorner, among the crossings below the
\* mark and more than a metre from it, and at the point courseLength metres
\* downwind of the mark only when there is no such crossing.
C24_WindLineDownwind ==
    IsLayerCall => windLineClippedTo(windLineEnds(call.cfg, callWorld, TRUE))

\* C25: whenever zones are produced, at both band levels the left warning
\* line is not to the right of the right warning line, so the centre zone never
\* has its left edge to the right of its right edge.
C25_WarningLinesDoNotCross ==
    (IsLayerCall /\ ret[1].zones # Null) =>
        \A i \in 1..2 :
            zoneLevels(ret[1].zones)[i].warnLeft <= zoneLevels(ret[1].zones)[i].warnRight

\* zones with a level at which the clamped warning lines crossed and were
\* merged: both lie on one point, left of the left boundary, where the clamp
\* alone never puts the left warning line
C25_Witness ==
    /\ IsLayerCall
    /\ ret[1].zones # Null
    /\ \E i \in 1..2 :
          LET level == zoneLevels(ret[1].zones)[i]
          IN  /\ level.warnLeft = level.warnRight
              /\ level.warnLeft < level.left

\* C26: through every sequence of operations of the user interface from
\* DEFAULT_CONFIG the live configuration stays well-formed: the start line is
\* 50 to 500 m long, the course length stays 1000 m, the wind speed is in
\* [1, 30] and the current speed in [0, 6] knots.
C26_ConfigWellFormed ==
    /\ Between(config.startLineLength, Metres(50, 1), Metres(500, 1))
    /\ config.startLineLength > 0
    /\ config.courseLength = Metres(1000, 1)
    /\ config.courseLength > 0
    /\ Between(config.windSpeed, Num(1, 1), Num(30, 1))
    /\ Between(config.currentSpeed, 0, Num(6, 1))

\* two edits have brought two of the bounded fields to the ends of their
\* ranges
C26_Witness ==
    /\ edits = 2
    /\ config.windSpeed \in {Num(1, 1), Num(30, 1)}
    /\ \/ config.currentSpeed = Num(6, 1)
       \/ config.startLineLength = Metres(50, 1)

\* the configuration keeps every field but the given ones in this step
OnlyFieldsChange(fields) == \A f \in ConfigFields \ fields : config'[f] = config[f]

\* the boats keep their number and order, and every boat but the one with the
\* given id keeps all its fields
OnlyBoatChanges(id) ==
    /\ Len(boats') = Len(boats)
    /\ \A i \in 1..Len(boats) : boats[i].id # id => boats'[i] = boats[i]

\* the id of the boat a boat drag is about
draggedBoatId == IF dragging = "boatX" THEN "X" ELSE "Y"

\* C27: a pointer move changes the configuration or a boat only while a drag
\* is in progress, a drag begins only with a pointer-down on the wind control,
\* the current control or a boat and lasts until the next pointer-up, which
\* sets dragging to null and clears the drag start; a wind drag changes only
\* windDirection and windSpeed, a current drag only currentDirection and
\* currentSpeed, a boat drag only the position of its boat.
C27_DragProtocol ==
    [][/\ (dragging = NotDragging) <=> (dragStart = Null)
       /\ dragging' # dragging \/ dragStart' # dragStart => PointerDown \/ PointerUp
       /\ PointerDown =>
             /\ dragging' \in {"wind", "current", "boatX", "boatY"}
             /\ dragStart' # Null
             /\ UNCHANGED <<config, comparisonConfig, boats>>
       /\ PointerUp =>
             /\ dragging' = NotDragging
             /\ dragStart' = Null
             /\ UNCHANGED <<config, comparisonConfig>>
       /\ PointerMove =>
             /\ dragging # NotDragging
             /\ UNCHANGED <<dragging, dragStart, comparisonConfig>>
             /\ dragging = "wind" =>
                   /\ OnlyFieldsChange({"windDirection", "windSpeed"})
                   /\ boats' = boats
             /\ dragging = "current" =>
                   /\ OnlyFieldsChange({"currentDirection", "currentSpeed"})
                   /\ boats' = boats
             /\ dragging \in {"boatX", "boatY"} =>
                   /\ config' = config
                   /\ OnlyBoatChanges(draggedBoatId)
                   /\ \A i \in 1..Len(boats) :
                         boats'[i] = [boats[i] EXCEPT !.position = boats'[i].position]]_vars

\* a wind drag and a current drag have both been made and released: the two
\* directions are the ones of the pointer 30 px right of and 40 px above the
\* centre of each control, and no other field has left its default
C27_Witness ==
    /\ dragging = NotDragging
    /\ dragStart = Null
    /\ config.windDirection = Num(217, 1)
    /\ config.currentDirection = Num(37, 1)
    /\ \A f \in ConfigFields \ {"windDirection", "windSpeed", "currentDirection",
                                "currentSpeed"} : config[f] = DEFAULT_CONFIG[f]

\* the pixels between the place the pointer went down at and the place e
pressDistance(e) == MathHypot(e.x - dragStart.x, e.y - dragStart.y)

\* the other tack
flipped(tack) == IF tack = "port" THEN "stbd" ELSE "port"

\* C28: a pointer released less than 5 px from where it went down on boat X
\* or Y flips the tack of exactly that boat and leaves the other boat as it
\* was; released 5 px or more away it changes no tack; and no pointer
\* operation changes the visibility of a boat or the number and ids of the
\* boats.
C28_ClickVersusDrag ==
    [][/\ \A off \in ReleaseOffsets :
             (/\ dragging \in {"boatX", "boatY"}
              /\ handlePointerUp(Pt(dragStart.x + off[1], dragStart.y + off[2]))) =>
                 IF pressDistance(Pt(dragStart.x + off[1], dragStart.y + off[2])) < Metres(5, 1)
                 THEN /\ OnlyBoatChanges(draggedBoatId)
                      /\ \A i \in 1..Len(boats) :
                            boats[i].id = draggedBoatId =>
                               /\ boats'[i].tack = flipped(boats[i].tack)
                               /\ boats'[i].tack # boats[i].tack
                               /\ boats'[i] = [boats[i] EXCEPT !.tack = boats'[i].tack]
                 ELSE boats' = boats
       /\ PointerDown \/ PointerMove \/ PointerUp =>
             /\ Len(boats') = Len(boats)
             /\ \A i \in 1..Len(boats) :
                   /\ boats'[i].id = boats[i].id
                   /\ boats'[i].visible = boats[i].visible
             /\ PointerDown \/ PointerMove => \A i \in 1..Len(boats) : boats'[i].tack = boats[i].tack]_vars

\* a boat has been shown and clicked: it is on the other tack, at its place,
\* the other boat is as at the start, and no drag is in progress
C28_Witness ==
    /\ dragging = NotDragging
    /\ \E i \in 1..Len(boats) :
          /\ boats[i].visible
          /\ boats[i].tack = flipped(InitialBoats[i].tack)
          /\ boats[i].position = InitialBoats[i].position
          /\ \A j \in 1..Len(boats) : j # i => boats[j] = InitialBoats[j]

(***************************************************************************)
(* The claim about edits made before the render, checked under SpecBatch.  *)
(***************************************************************************)
\* C29: no update is lost.  Every edit changes only the fields it is about,
\* relative to the latest configuration, also when an edit before it has not
\* been rendered yet: a slider or checkbox change keeps every other field of
\* the latest configuration, a wind drag move every field but windDirection
\* and windSpeed.
C29_NoLostUpdate ==
    [][/\ \A input \in SliderInputs :
             Stale_handleChange(input[1], input[2]) => OnlyFieldsChange({input[1]})
       /\ \A key \in {"showLadderRungs", "showLaylines", "showWindLine", "showZones"} :
             Stale_handleChange(key, ~renderedConfig[key]) => OnlyFieldsChange({key})
       /\ Queued_PointerMove => OnlyFieldsChange({"windDirection", "windSpeed"})]_vars

(***************************************************************************)
(* The claim about the upwind speed over the wind range, checked under     *)
(* SpecMath.                                                               *)
(***************************************************************************)
\* C30: the boat speed at the optimal upwind angle, which is the base max
\* speed, does not decrease as the wind speed grows from 1 to 30 kn: no
\* lighter wind in that range gives a higher upwind speed.
C30_UpwindSpeedMonotone ==
    (IsUpwindSpeedCall /\ Between(call.w, Num(1, 1), Num(30, 1))) =>
        /\ ret[1] = baseMaxSpeed(call.w)
        /\ \A v \in WindSpeeds :
              Between(v, Num(1, 1), call.w) =>
                  calculateBoatSpeed(getUpwindTWA(v), v) <= ret[1]

=============================================================================
